---- MODULE Spec2Model ----
(***************************************************************************)
(* tuIRC: the IRC client of src/src/lib/IrcClient.ts, its codec            *)
(* (IrcParser.ts) and the Node socket, timer and promise machinery that    *)
(* drives it.                                                              *)
(*                                                                         *)
(* Strings are sequences of one-character strings, so that parse, format,  *)
(* trim and split are computed character by character as the code does.    *)
(*                                                                         *)
(* A handler of the program is an operator from a "world" record (the      *)
(* client's fields, the sockets, the timers and the log of what the        *)
(* handler has done so far) to the world after the handler; an action      *)
(* applies the handlers that one event-loop turn runs, in the order Node   *)
(* runs them, and commits the result.                                      *)
(***************************************************************************)
EXTENDS Integers, Sequences, FiniteSets, TLC

VARIABLES
  connectionState,    \* IrcClient.connectionState
  socket,             \* IrcClient.socket: index into socks, 0 for null
  server,             \* IrcClient.server
  port,               \* IrcClient.port
  currentNick,        \* IrcClient.currentNick
  reconnectAttempts,  \* IrcClient.reconnectAttempts
  pingInterval,       \* IrcClient.pingInterval: TRUE when a handle is stored
  lastPingTime,       \* IrcClient.lastPingTime
  channels,           \* IrcClient.channels: a Map, as its list of entries
  socks,              \* every net.Socket created so far, in creation order
  reconnectTimers,    \* pending setTimeout callbacks of scheduleReconnect
  pingTimers,         \* number of armed setInterval timers (stored or leaked)
  now,                \* Date.now()
  wire,               \* what the server sent and the client has not read yet
  nReconnectFailed,   \* how many reconnect_failed events were emitted so far
  hook,               \* useIrcClient: whether it is subscribed, and its channels
  op,                 \* the event-loop turn that produced this state
  effects             \* what that turn did, in order

vars == <<connectionState, socket, server, port, currentNick,
          reconnectAttempts, pingInterval, lastPingTime, channels, socks,
          reconnectTimers, pingTimers, now, wire, nReconnectFailed, hook,
          op, effects>>

----------------------------------------------------------------------------
(* Bounds of the model.                                                    *)

MaxSockets == 2
MaxRetrySockets == 7
MaxWire == 18
MaxTail == 5
MaxLifeSockets == 3
MaxTicks == 8
MaxAgainSockets == 3
MaxParams == 2
MaxFormatParams == 3

----------------------------------------------------------------------------
(* Characters and strings.                                                 *)

SP == " "
COLON == ":"
CR == "\r"
LF == "\n"
HASH == "#"
AMP == "&"
BANG == "!"

IsSpaceChar(c) == c \in {SP, CR, LF}

\* String.prototype.startsWith for a one-character needle
StartsWith(s, c) == Len(s) > 0 /\ s[1] = c

\* String.prototype.includes for a one-character needle
Includes(s, c) == \E i \in 1..Len(s) : s[i] = c

\* String.prototype.indexOf for a one-character needle: 0-based, -1 if absent
IndexOf(s, c) ==
  IF Includes(s, c)
    THEN (CHOOSE i \in 1..Len(s) : s[i] = c /\ \A j \in 1..(i-1) : s[j] # c) - 1
    ELSE -1

\* String.prototype.substring(from) and substring(from, to), 0-based
SubstringFrom(s, from) == SubSeq(s, from + 1, Len(s))
Substring(s, from, to) == SubSeq(s, from + 1, to)

RECURSIVE TrimLeft(_)
TrimLeft(s) ==
  IF Len(s) > 0 /\ IsSpaceChar(s[1]) THEN TrimLeft(Tail(s)) ELSE s

RECURSIVE TrimRight(_)
TrimRight(s) ==
  IF Len(s) > 0 /\ IsSpaceChar(s[Len(s)])
    THEN TrimRight(SubSeq(s, 1, Len(s) - 1))
    ELSE s

\* String.prototype.trim
Trim(s) == TrimLeft(TrimRight(s))

\* String.prototype.split for a one-character separator
RECURSIVE Split(_, _)
Split(s, c) ==
  LET i == IndexOf(s, c) IN
  IF i = -1 THEN <<s>>
  ELSE <<Substring(s, 0, i)>> \o Split(SubstringFrom(s, i + 1), c)

\* Array.prototype.join
RECURSIVE JoinWith(_, _)
JoinWith(parts, sep) ==
  IF Len(parts) = 0 THEN <<>>
  ELSE IF Len(parts) = 1 THEN parts[1]
  ELSE parts[1] \o sep \o JoinWith(Tail(parts), sep)

----------------------------------------------------------------------------
(* Message codec: IrcParser.                                               *)

\* the parameter loop of IrcParser.parse
RECURSIVE ParseParams(_)
ParseParams(remaining) ==
  IF Len(remaining) = 0 THEN <<>>
  ELSE IF StartsWith(remaining, COLON) THEN <<SubstringFrom(remaining, 1)>>
  ELSE LET paramEnd == IndexOf(remaining, SP) IN
       IF paramEnd = -1 THEN <<remaining>>
       ELSE <<Substring(remaining, 0, paramEnd)>>
              \o ParseParams(SubstringFrom(remaining, paramEnd + 1))

\* IrcParser.parse: ok is FALSE where the code throws
Parse(line) ==
  LET raw == Trim(line)
      hasPrefix == StartsWith(raw, COLON)
      prefixEnd == IndexOf(raw, SP)
      afterPrefix == IF hasPrefix THEN SubstringFrom(raw, prefixEnd + 1) ELSE raw
      commandEnd == IndexOf(afterPrefix, SP)
  IN
  IF Len(raw) = 0
    THEN [ok |-> FALSE, hasPrefix |-> FALSE, prefix |-> <<>>,
          command |-> <<>>, params |-> <<>>]
  ELSE IF hasPrefix /\ prefixEnd = -1
    THEN [ok |-> FALSE, hasPrefix |-> FALSE, prefix |-> <<>>,
          command |-> <<>>, params |-> <<>>]
  ELSE [ok |-> TRUE,
        hasPrefix |-> hasPrefix,
        prefix |-> IF hasPrefix THEN Substring(raw, 1, prefixEnd) ELSE <<>>,
        command |-> IF commandEnd = -1 THEN afterPrefix
                    ELSE Substring(afterPrefix, 0, commandEnd),
        \* when no space follows the command, remaining still holds the
        \* command itself and the parameter loop reads it again
        params |-> IF commandEnd = -1 THEN ParseParams(afterPrefix)
                   ELSE ParseParams(SubstringFrom(afterPrefix, commandEnd + 1))]

\* the loop of IrcParser.format, from parameter i on
RECURSIVE FormatParams(_, _)
FormatParams(params, i) ==
  IF i > Len(params) THEN <<>>
  ELSE LET param == params[i] IN
       (IF Len(param) = 0 THEN <<>>
        ELSE IF i = Len(params) /\ (Includes(param, SP) \/ Includes(param, COLON))
          THEN <<SP, COLON>> \o param
          ELSE <<SP>> \o param)
       \o FormatParams(params, i + 1)

\* IrcParser.format
Format(command, params) == command \o FormatParams(params, 1)

\* IrcParser.extractNickFromPrefix
ExtractNickFromPrefix(hasPrefix, prefix) ==
  IF ~hasPrefix \/ Len(prefix) = 0 THEN <<"s","y","s","t","e","m">>
  ELSE LET nickEnd == IndexOf(prefix, BANG) IN
       IF nickEnd = -1 THEN prefix ELSE Substring(prefix, 0, nickEnd)

\* IrcParser.isChannelName
IsChannelName(name) == StartsWith(name, HASH) \/ StartsWith(name, AMP)

\* String.prototype.toUpperCase over the letters the model uses
UpperChar(c) ==
  CASE c = "p" -> "P" [] c = "i" -> "I" [] c = "n" -> "N" [] c = "g" -> "G"
    [] c = "o" -> "O" [] c = "j" -> "J" [] c = "a" -> "A" [] c = "r" -> "R"
    [] c = "t" -> "T" [] c = "q" -> "Q" [] c = "u" -> "U" [] c = "k" -> "K"
    [] c = "c" -> "C" [] c = "v" -> "V" [] c = "m" -> "M" [] c = "s" -> "S"
    [] OTHER -> c

ToUpperCase(s) == [i \in 1..Len(s) |-> UpperChar(s[i])]

----------------------------------------------------------------------------
(* Program constants.                                                      *)

maxReconnectAttempts == 5
reconnectDelay == 5000
KeepaliveThreshold == 180000
PingCheckInterval == 60000
MinPort == 1
MaxPort == 65535

\* Date.now() when the client is constructed: far above KeepaliveThreshold
StartNow == 4 * PingCheckInterval

----------------------------------------------------------------------------
(* String literals of the program and of the inputs.                       *)

sNICK == <<"N", "I", "C", "K">>
sUSER == <<"U", "S", "E", "R">>
sJOIN == <<"J", "O", "I", "N">>
sPART == <<"P", "A", "R", "T">>
sPRIVMSG == <<"P", "R", "I", "V", "M", "S", "G">>
sQUIT == <<"Q", "U", "I", "T">>
sPING == <<"P", "I", "N", "G">>
sPONG == <<"P", "O", "N", "G">>
CRLF == <<CR, LF>>

----------------------------------------------------------------------------
(* The world a handler runs in, and what a handler leaves in the log.      *)

World ==
  [connectionState |-> connectionState, socket |-> socket, server |-> server,
   port |-> port, currentNick |-> currentNick,
   reconnectAttempts |-> reconnectAttempts, pingInterval |-> pingInterval,
   lastPingTime |-> lastPingTime, socks |-> socks,
   reconnectTimers |-> reconnectTimers, pingTimers |-> pingTimers,
   channels |-> channels, now |-> now, wire |-> wire, hook |-> hook,
   effects |-> <<>>, exc |-> ""]

\* one entry of the log: k is "emit", "state", "write", "throw", "socket",
\* "timeout", "interval", "raw", "dispatch" or "log"
\* args is the list of the values passed
Eff(k, s, name, args, n) ==
  [k |-> k, sock |-> s, name |-> name, args |-> args, n |-> n]

Log(w, e) == [w EXCEPT !.effects = Append(@, e)]

\* EventEmitter.emit(ev, ...args)
Emit(w, ev, args) == Log(w, Eff("emit", 0, ev, args, 0))

\* this.connectionState = st
SetState(w, st) ==
  Log([w EXCEPT !.connectionState = st], Eff("state", 0, st, <<>>, 0))

\* throw new Error(msg): the rest of the handler is skipped up to its catch
Throw(w, msg) == [w EXCEPT !.exc = msg]

\* sequencing of two statements: the second runs unless the first threw
Then(w, F(_)) == IF w.exc # "" THEN w ELSE F(w)

----------------------------------------------------------------------------
(* net.Socket.                                                             *)

\* new net.Socket(), then connect(port, server) called by connect(.., nick)
NewSocket(nick) ==
  [tcp |-> "connecting",   \* "connecting", "open" or "closed"
   promise |-> "pending",  \* the promise connect() awaits on this socket
   nick |-> nick,          \* the nick parameter of that connect() call
   handlers |-> 0,         \* how often setupSocketHandlers registered on it
   ended |-> FALSE,        \* end() was called on it by disconnect()
   carry |-> <<>>,         \* what was received on it since the last LF
   wrote |-> FALSE]        \* write() was called on it

\* a socket after "close": it emits no further event, and a write to it
\* goes nowhere, so the record keeps nothing
ClosedSocket ==
  [tcp |-> "closed", promise |-> "settled", nick |-> <<>>, handlers |-> 0,
   ended |-> FALSE, carry |-> <<>>, wrote |-> FALSE]

\* socket.write(line) on this.socket
SocketWrite(w, line) ==
  LET s == w.socket
      w1 == IF w.socks[s].tcp # "closed"
              THEN [w EXCEPT !.socks[s].wrote = TRUE]
              ELSE w
  IN Log(w1, Eff("write", s, IF w.socks[s].wrote THEN "later" ELSE "first",
                 <<line>>, 0))

----------------------------------------------------------------------------
(* IrcClient: outbound.                                                    *)

\* IrcClient.send
Send(w, command, params) ==
  IF w.socket = 0 \/ w.connectionState = "disconnected"
    THEN Throw(w, "Not connected")
    ELSE SocketWrite(w, Format(command, params) \o CRLF)

\* IrcClient.authenticate
Authenticate(w, nick) ==
  Then(Send(w, sNICK, <<nick>>),
       LAMBDA x : Send(x, sUSER, <<nick, <<"0">>, <<"*">>, nick>>))

\* join sending the name as given, without a '#' put before it
Join_NameAsGiven(w, channel) == Send(w, sJOIN, <<channel>>)

\* IrcClient.join
Join(w, channel) ==
  Send(w, sJOIN, <<IF StartsWith(channel, HASH) THEN channel
                   ELSE <<HASH>> \o channel>>)

\* IrcClient.part: reason <<>> stands for an absent (or empty) reason
Part(w, channel, reason) ==
  Send(w, sPART, IF Len(reason) > 0 THEN <<channel, reason>> ELSE <<channel>>)

\* privmsg echoing the sent text as a message event of its own
Privmsg_EchoesLocally(w, target, message) ==
  Then(Send(w, sPRIVMSG, <<target, message>>),
       LAMBDA x : Emit(x, "message", <<x.currentNick, target, message>>))

\* IrcClient.privmsg
Privmsg(w, target, message) == Send(w, sPRIVMSG, <<target, message>>)

\* IrcClient.nick
Nick(w, newNick) == Send(w, sNICK, <<newNick>>)

\* IrcClient.quit: reason <<>> stands for an absent (or empty) reason
Quit(w, reason) ==
  Send(w, sQUIT, IF Len(reason) > 0 THEN <<<<COLON>> \o reason>> ELSE <<>>)

----------------------------------------------------------------------------
(* IrcClient: timers.                                                      *)

\* IrcClient.startPingTimer: the handle stored before, if any, is overwritten
\* and its timer stays armed
StartPingTimer(w) ==
  Log([w EXCEPT !.pingInterval = TRUE, !.pingTimers = @ + 1],
      Eff("interval", 0, "start", <<>>, PingCheckInterval))

\* IrcClient.clearPingTimer
ClearPingTimer(w) ==
  IF w.pingInterval
    THEN Log([w EXCEPT !.pingInterval = FALSE, !.pingTimers = @ - 1],
             Eff("interval", 0, "clear", <<>>, 0))
    ELSE w

\* IrcClient.handlePong
HandlePong(w) == [w EXCEPT !.lastPingTime = w.now]

\* the callback of startPingTimer's setInterval
PingCheck(w) ==
  IF w.now - w.lastPingTime > KeepaliveThreshold
    THEN Then(Send(w, sPING, <<<<COLON>> \o w.server>>),
              LAMBDA x : [x EXCEPT !.lastPingTime = x.now])
    ELSE w

\* scheduleReconnect with <= for <: one attempt too many
ScheduleReconnect_OneMore(w) ==
  IF w.reconnectAttempts <= maxReconnectAttempts
    THEN LET w1 == [w EXCEPT !.reconnectAttempts = @ + 1]
             w2 == SetState(w1, "reconnecting")
             w3 == Emit(w2, "reconnecting", <<w2.reconnectAttempts>>)
         IN Log([w3 EXCEPT !.reconnectTimers.live = @ + 1],
                Eff("timeout", 0, "reconnect", <<>>,
                    reconnectDelay * w3.reconnectAttempts))
    ELSE Emit(w, "reconnect_failed", <<>>)

\* IrcClient.scheduleReconnect
ScheduleReconnect(w) ==
  IF w.reconnectAttempts < maxReconnectAttempts
    THEN LET w1 == [w EXCEPT !.reconnectAttempts = @ + 1]
             w2 == SetState(w1, "reconnecting")
             w3 == Emit(w2, "reconnecting", <<w2.reconnectAttempts>>)
         IN Log([w3 EXCEPT !.reconnectTimers.live = @ + 1],
                Eff("timeout", 0, "reconnect", <<>>,
                    reconnectDelay * w3.reconnectAttempts))
    ELSE Emit(w, "reconnect_failed", <<>>)

----------------------------------------------------------------------------
(* Map<string, V>: the list of its entries in insertion order.             *)

MapHas(m, k) == \E i \in 1..Len(m) : m[i].key = k

MapIndex(m, k) == CHOOSE i \in 1..Len(m) : m[i].key = k

MapGet(m, k) == m[MapIndex(m, k)].val

\* Map.set: an existing key keeps its place
MapSet(m, k, v) ==
  IF MapHas(m, k) THEN [m EXCEPT ![MapIndex(m, k)].val = v]
  ELSE Append(m, [key |-> k, val |-> v])

\* Map.delete
MapDelete(m, k) ==
  IF MapHas(m, k)
    THEN LET i == MapIndex(m, k) IN SubSeq(m, 1, i - 1) \o SubSeq(m, i + 1, Len(m))
    ELSE m

\* Array.from(Map.values())
MapValues(m) == [i \in 1..Len(m) |-> m[i].val]

MapKeys(m) == [i \in 1..Len(m) |-> m[i].key]

----------------------------------------------------------------------------
(* IrcClient: the protocol dispatcher.                                     *)

s001 == <<"0", "0", "1">>
s002 == <<"0", "0", "2">>
s003 == <<"0", "0", "3">>
s004 == <<"0", "0", "4">>
s005 == <<"0", "0", "5">>
s332 == <<"3", "3", "2">>
s353 == <<"3", "5", "3">>
s366 == <<"3", "6", "6">>
sServerColon == <<"S", "e", "r", "v", "e", "r", ":", " ">>
AT == "@"
PLUS == "+"

\* params[i] of a JavaScript array (0-based) as a list of none or one value
Opt(params, i) == IF Len(params) > i THEN <<params[i + 1]>> ELSE <<>>

\* the truthiness test `if (params[i])`: defined and not the empty string
Truthy(params, i) == Len(params) > i /\ Len(params[i + 1]) > 0

\* the channel record handleJoin and handlePrivmsg create
NewChannel(name) ==
  [name |-> name, hasTopic |-> FALSE, topic |-> <<>>, users |-> <<>>,
   messages |-> <<>>]

\* handleJoin keeping the entry a nick already has
HandleJoin_KeepsEntry(w, nick, channel) ==
  LET chans == IF MapHas(w.channels, channel) THEN w.channels
               ELSE MapSet(w.channels, channel, NewChannel(channel))
      i == MapIndex(chans, channel)
      user == [nick |-> nick, modes |-> <<>>]
  IN Emit([w EXCEPT !.channels =
             [chans EXCEPT ![i].val.users =
                IF MapHas(@, nick) THEN @ ELSE MapSet(@, nick, user)]],
          "join", <<nick, channel>>)

\* IrcClient.handleJoin
HandleJoin(w, nick, channel) ==
  LET chans == IF MapHas(w.channels, channel) THEN w.channels
               ELSE MapSet(w.channels, channel, NewChannel(channel))
      i == MapIndex(chans, channel)
      user == [nick |-> nick, modes |-> <<>>]
  IN Emit([w EXCEPT !.channels =
             [chans EXCEPT ![i].val.users = MapSet(@, nick, user)]],
          "join", <<nick, channel>>)

\* handlePart dropping the channel that the part leaves empty
HandlePart_DropsEmptyChannel(w, nick, channel, reason) ==
  IF MapHas(w.channels, channel)
    THEN LET i == MapIndex(w.channels, channel)
             w1 == [w EXCEPT !.channels[i].val.users = MapDelete(@, nick)]
             w2 == IF Len(w1.channels[i].val.users) = 0
                     THEN [w1 EXCEPT !.channels = MapDelete(@, channel)]
                     ELSE w1
         IN Emit(w2, "part", <<nick, channel, reason>>)
    ELSE w

\* IrcClient.handlePart
HandlePart(w, nick, channel, reason) ==
  IF MapHas(w.channels, channel)
    THEN LET i == MapIndex(w.channels, channel) IN
         Emit([w EXCEPT !.channels[i].val.users = MapDelete(@, nick)],
              "part", <<nick, channel, reason>>)
    ELSE w

\* IrcClient.handlePrivmsg
HandlePrivmsg(w, nick, target, content) ==
  LET isChannel == IsChannelName(target)
      w1 == IF isChannel /\ ~MapHas(w.channels, target)
              THEN [w EXCEPT !.channels = MapSet(@, target, NewChannel(target))]
              ELSE w
  IN Emit(w1, "message", <<nick, target, content>>)

\* the loop of IrcClient.handleQuit over the channels from the i-th on:
\* the channels after the loop and the names pushed to affectedChannels
RECURSIVE QuitLoop(_, _, _)
QuitLoop(chans, nick, i) ==
  IF i > Len(chans) THEN [channels |-> chans, affected |-> <<>>]
  ELSE IF MapHas(chans[i].val.users, nick)
    THEN LET rest == QuitLoop([chans EXCEPT ![i].val.users = MapDelete(@, nick)],
                              nick, i + 1)
         IN [rest EXCEPT !.affected = <<chans[i].val.name>> \o @]
    ELSE QuitLoop(chans, nick, i + 1)

\* handleQuit leaving the loop at the first channel that has the nick
HandleQuit_FirstChannelOnly(w, nick, reason) ==
  LET has == {i \in 1..Len(w.channels) : MapHas(w.channels[i].val.users, nick)}
  IN IF has = {} THEN Emit(w, "quit", <<nick, reason, <<>>>>)
     ELSE LET i == CHOOSE j \in has : \A k \in has : j <= k IN
          Emit([w EXCEPT !.channels[i].val.users = MapDelete(@, nick)],
               "quit", <<nick, reason, <<w.channels[i].val.name>>>>)

\* IrcClient.handleQuit
HandleQuit(w, nick, reason) ==
  LET r == QuitLoop(w.channels, nick, 1) IN
  Emit([w EXCEPT !.channels = r.channels], "quit", <<nick, reason, r.affected>>)

\* the loop of handleNames adding the modes to those the nick already has
RECURSIVE NamesLoop_MergeModes(_, _, _)
NamesLoop_MergeModes(users, names, i) ==
  IF i > Len(names) THEN users
  ELSE LET name == names[i] IN
       IF Len(name) = 0 THEN NamesLoop_MergeModes(users, names, i + 1)
       ELSE LET modes == IF StartsWith(name, AT) THEN <<"op">>
                         ELSE IF StartsWith(name, PLUS) THEN <<"voice">>
                         ELSE <<>>
                nick == IF StartsWith(name, AT) \/ StartsWith(name, PLUS)
                          THEN SubstringFrom(name, 1) ELSE name
                old == IF MapHas(users, nick) THEN MapGet(users, nick).modes
                       ELSE <<>>
            IN NamesLoop_MergeModes(
                 MapSet(users, nick, [nick |-> nick, modes |-> old \o modes]),
                 names, i + 1)

\* the loop of IrcClient.handleNames over the names from the i-th on
RECURSIVE NamesLoop(_, _, _)
NamesLoop(users, names, i) ==
  IF i > Len(names) THEN users
  ELSE LET name == names[i] IN
       IF Len(name) = 0 THEN NamesLoop(users, names, i + 1)
       ELSE LET modes == IF StartsWith(name, AT) THEN <<"op">>
                         ELSE IF StartsWith(name, PLUS) THEN <<"voice">>
                         ELSE <<>>
                nick == IF StartsWith(name, AT) \/ StartsWith(name, PLUS)
                          THEN SubstringFrom(name, 1) ELSE name
            IN NamesLoop(MapSet(users, nick, [nick |-> nick, modes |-> modes]),
                         names, i + 1)

\* IrcClient.handleNames
HandleNames(w, channel, namesList) ==
  IF ~MapHas(w.channels, channel) THEN w
  ELSE LET i == MapIndex(w.channels, channel)
           users == NamesLoop(w.channels[i].val.users, Split(namesList, SP), 1)
       IN Emit([w EXCEPT !.channels[i].val.users = users],
               "userlist", <<channel, MapValues(users)>>)

\* IrcClient.handleTopic
HandleTopic(w, channel, topic) ==
  IF MapHas(w.channels, channel)
    THEN LET i == MapIndex(w.channels, channel) IN
         Emit([w EXCEPT !.channels[i].val.hasTopic = TRUE,
                        !.channels[i].val.topic = topic],
              "topic", <<channel, topic>>)
    ELSE w

\* the loop body of handleNickChange making a new record for the new nick
RenameIn_NewRecord(users, oldNick, newNick) ==
  IF MapHas(users, oldNick)
    THEN MapSet(MapDelete(users, oldNick), newNick,
                [nick |-> newNick, modes |-> <<>>])
    ELSE users

\* the loop body of IrcClient.handleNickChange for one roster
RenameIn(users, oldNick, newNick) ==
  IF MapHas(users, oldNick)
    THEN LET user == MapGet(users, oldNick) IN
         MapSet(MapDelete(users, oldNick), newNick, [user EXCEPT !.nick = newNick])
    ELSE users

\* handleNickChange moving each record to the new key without the
\* assignment user.nick = newNick
HandleNickChange_KeyOnly(w, oldNick, newNick) ==
  LET w1 == IF oldNick = w.currentNick THEN [w EXCEPT !.currentNick = newNick]
            ELSE w
      moved(users) ==
        IF MapHas(users, oldNick)
          THEN MapSet(MapDelete(users, oldNick), newNick, MapGet(users, oldNick))
          ELSE users
      chans == [i \in 1..Len(w1.channels) |->
                 [w1.channels[i] EXCEPT !.val.users = moved(@)]]
  IN Emit([w1 EXCEPT !.channels = chans], "nick", <<oldNick, newNick>>)

\* IrcClient.handleNickChange
HandleNickChange(w, oldNick, newNick) ==
  LET w1 == IF oldNick = w.currentNick THEN [w EXCEPT !.currentNick = newNick]
            ELSE w
      chans == [i \in 1..Len(w1.channels) |->
                 [w1.channels[i] EXCEPT !.val.users = RenameIn(@, oldNick, newNick)]]
  IN Emit([w1 EXCEPT !.channels = chans], "nick", <<oldNick, newNick>>)

\* IrcClient.processMessage
ProcessMessage(w, message) ==
  LET params == message.params
      nick == ExtractNickFromPrefix(message.hasPrefix, message.prefix)
      command == ToUpperCase(message.command)
  IN
  CASE command = sPING -> Send(w, sPONG, params)
    [] command = sPONG -> HandlePong(w)
    [] command \in {s001, s002, s003, s004, s005} ->
         Emit(w, "system",
              <<sServerColon \o JoinWith(SubSeq(params, 2, Len(params)), <<SP>>)>>)
    [] command = sJOIN ->
         IF Truthy(params, 0) THEN HandleJoin(w, nick, params[1]) ELSE w
    [] command = sPART ->
         IF Truthy(params, 0) THEN HandlePart(w, nick, params[1], Opt(params, 1))
         ELSE w
    [] command = sPRIVMSG ->
         IF Truthy(params, 0) /\ Truthy(params, 1)
           THEN HandlePrivmsg(w, nick, params[1], params[2]) ELSE w
    [] command = sQUIT -> HandleQuit(w, nick, Opt(params, 0))
    [] command = s353 ->
         IF Truthy(params, 2) /\ Truthy(params, 3)
           THEN HandleNames(w, params[3], params[4]) ELSE w
    [] command = s366 -> w
    [] command = s332 ->
         IF Truthy(params, 1) /\ Truthy(params, 2)
           THEN HandleTopic(w, params[2], params[3]) ELSE w
    [] command = sNICK ->
         IF Truthy(params, 0) THEN HandleNickChange(w, nick, params[1]) ELSE w
    [] OTHER -> w

\* handleRawMessage treating a line that does not parse as a failure of
\* the connection
HandleRawMessage_FailsConnection(w, line) ==
  LET message == Parse(line)
      w0 == Log(w, Eff("raw", 0, "", <<line>>, 0))
  IN
  IF ~message.ok THEN SetState(Emit(w0, "error", <<>>), "error")
  ELSE LET w1 == ProcessMessage(
                   Log(w0, Eff("dispatch", 0, "",
                               <<message.command, message.params>>, 0)),
                   message)
       IN IF w1.exc # ""
            THEN Log([w1 EXCEPT !.exc = ""],
                     Eff("log", 0, "Failed to parse IRC message", <<line>>, 0))
            ELSE w1

\* IrcClient.handleRawMessage: a throw of parse or of processMessage is
\* caught and logged
HandleRawMessage(w, line) ==
  LET message == Parse(line)
      w0 == Log(w, Eff("raw", 0, "", <<line>>, 0))
  IN
  IF ~message.ok THEN Log(w0, Eff("log", 0, "Failed to parse IRC message", <<line>>, 0))
  ELSE LET w1 == ProcessMessage(
                   Log(w0, Eff("dispatch", 0, "",
                               <<message.command, message.params>>, 0)),
                   message)
       IN IF w1.exc # ""
            THEN Log([w1 EXCEPT !.exc = ""],
                     Eff("log", 0, "Failed to parse IRC message", <<line>>, 0))
            ELSE w1

\* the loop of the "data" listener over the lines from the i-th on
RECURSIVE DataLoop(_, _, _)
DataLoop(w, lines, i) ==
  IF i > Len(lines) THEN w
  ELSE DataLoop(IF Len(Trim(lines[i])) > 0
                  THEN HandleRawMessage(w, Trim(lines[i])) ELSE w,
                lines, i + 1)

\* the "data" listener of setupSocketHandlers
OnData(w, data) == DataLoop(w, Split(data, LF), 1)

\* the "close" listener of setupSocketHandlers
OnClose(w) ==
  LET w1 == Emit(ClearPingTimer(SetState(w, "disconnected")), "disconnected", <<>>)
  IN IF w1.reconnectAttempts < maxReconnectAttempts
       THEN ScheduleReconnect(w1) ELSE w1

\* the "error" listener of setupSocketHandlers
OnError(w) == SetState(Emit(w, "error", <<>>), "error")

\* IrcClient.setupSocketHandlers: one more set of listeners on this.socket
SetupSocketHandlers(w) ==
  IF w.socket = 0 THEN w
  ELSE [w EXCEPT !.socks[w.socket].handlers = @ + 1]

----------------------------------------------------------------------------
(* IrcClient: connect and disconnect.                                      *)

\* connect without the upper limit of the port
ConnectSync_AnyHighPort(w, srv, prt, nick) ==
  IF w.connectionState = "connecting" THEN Throw(w, "Already connecting")
  ELSE IF w.connectionState = "connected" THEN Throw(w, "Already connected")
  ELSE IF Len(srv) = 0 THEN Throw(w, "Invalid server address")
  ELSE IF prt = 0 \/ prt < MinPort THEN Throw(w, "Invalid port number")
  ELSE IF Len(nick) = 0 THEN Throw(w, "Invalid nickname")
  ELSE LET w1 == [w EXCEPT !.server = srv, !.port = prt, !.currentNick = nick]
           w2 == Emit(SetState(w1, "connecting"), "connecting", <<>>)
           s == Len(w2.socks) + 1
       IN Log([w2 EXCEPT !.socks = Append(@, NewSocket(nick)),
                         !.socket = s],
              Eff("socket", s, "connect", <<srv>>, prt))

\* IrcClient.connect up to its await: the checks, the assignments and the
\* new socket
ConnectSync(w, srv, prt, nick) ==
  IF w.connectionState = "connecting" THEN Throw(w, "Already connecting")
  ELSE IF w.connectionState = "connected" THEN Throw(w, "Already connected")
  ELSE IF Len(srv) = 0 THEN Throw(w, "Invalid server address")
  ELSE IF prt = 0 \/ prt < MinPort \/ prt > MaxPort
    THEN Throw(w, "Invalid port number")
  ELSE IF Len(nick) = 0 THEN Throw(w, "Invalid nickname")
  ELSE LET w1 == [w EXCEPT !.server = srv, !.port = prt, !.currentNick = nick]
           w2 == Emit(SetState(w1, "connecting"), "connecting", <<>>)
           s == Len(w2.socks) + 1
       IN Log([w2 EXCEPT !.socks = Append(@, NewSocket(nick)),
                         !.socket = s],
              Eff("socket", s, "connect", <<srv>>, prt))

\* the catch block without its call of scheduleReconnect
ConnectCatch_NoReconnect(w) ==
  IF w.exc = "" THEN w
  ELSE Emit(SetState([w EXCEPT !.exc = ""], "error"), "error", <<>>)

\* the catch block of IrcClient.connect
ConnectCatch(w) ==
  IF w.exc = "" THEN w
  ELSE ScheduleReconnect(
         Emit(SetState([w EXCEPT !.exc = ""], "error"), "error", <<>>))

\* IrcClient.connect after its await, when the promise was resolved
ConnectResolved(w, nick) ==
  LET w1 == SetupSocketHandlers(w)
      w2 == Authenticate(w1, nick)
      w3 == Then(w2, StartPingTimer)
      w4 == Then(w3, LAMBDA x :
                 Emit(SetState([x EXCEPT !.reconnectAttempts = 0], "connected"),
                      "connected", <<>>))
  IN ConnectCatch(w4)

\* IrcClient.connect after its await, when the promise was rejected
ConnectRejected(w, reason) == ConnectCatch(Throw(w, reason))

\* IrcClient.disconnect
DisconnectSync(w) ==
  LET w1 == IF w.socket # 0
              THEN Log([w EXCEPT !.socks[w.socket].ended = TRUE, !.socket = 0],
                       Eff("socket", w.socket, "end", <<>>, 0))
              ELSE w
  IN Emit(ClearPingTimer(SetState(w1, "disconnected")), "disconnected", <<>>)

\* k listeners of one kind, registered by k calls of setupSocketHandlers
RECURSIVE OnDataN(_, _, _)
OnDataN(w, data, k) == IF k = 0 THEN w ELSE OnDataN(OnData(w, data), data, k - 1)

RECURSIVE OnCloseN(_, _)
OnCloseN(w, k) == IF k = 0 THEN w ELSE OnCloseN(OnClose(w), k - 1)

RECURSIVE OnErrorN(_, _)
OnErrorN(w, k) == IF k = 0 THEN w ELSE OnErrorN(OnError(w), k - 1)

----------------------------------------------------------------------------
(* Inputs.                                                                 *)

sA == <<"a">>
sB == <<"b">>
sMe == <<"m", "e">>
sYu == <<"y", "u">>
sTest == <<"t", "e", "s", "t">>
sHashA == <<"#", "a">>
sBye == <<"b", "y", "e">>
sHi == <<"h", "i">>

ValidConnectArgs == {<<sA, 6667, sMe>>}

InvalidConnectArgs ==
  {<<<<>>, 6667, sMe>>, <<sA, 0, sMe>>, <<sA, 65536, sMe>>, <<sA, 6667, <<>>>>}

ConnectArgs == ValidConnectArgs \cup InvalidConnectArgs

Reasons == {<<>>, sBye}

DataChunks ==
  {<<"P", "I", "N", "G", " ", ":", "x", CR, LF>>,
   <<"P", "I", "N", "G", " ", ":", CR, LF>>,
   <<"P", "O", "N", "G", " ", ":", "x", CR, LF>>}

----------------------------------------------------------------------------
(* useIrcClient: the channel list the hook keeps from the client's events. *)
(* Of a channel the name and the users are kept, not the messages.         *)

sServer == <<"S", "e", "r", "v", "e", "r">>

HookHas(chs, name) == \E i \in 1..Len(chs) : chs[i].name = name

\* useIrcClient handleSystem, and the Server channel connect() initializes
HookHandleSystem(chs) ==
  IF HookHas(chs, sServer) THEN chs
  ELSE Append(chs, [name |-> sServer, users |-> <<>>])

\* useIrcClient handleJoin
HookHandleJoin(chs, nick, channelName) ==
  LET user == [nick |-> nick, modes |-> <<>>] IN
  IF HookHas(chs, channelName)
    THEN [i \in 1..Len(chs) |->
            IF chs[i].name = channelName
              THEN [chs[i] EXCEPT !.users = MapSet(@, nick, user)]
              ELSE chs[i]]
    ELSE Append(chs, [name |-> channelName,
                      users |-> <<[key |-> nick, val |-> user]>>])

\* useIrcClient handlePart
HookHandlePart(chs, nick, channelName) ==
  [i \in 1..Len(chs) |->
     IF chs[i].name = channelName
       THEN [chs[i] EXCEPT !.users = MapDelete(@, nick)]
       ELSE chs[i]]

\* useIrcClient handleQuit
HookHandleQuit(chs, nick, affectedChannels) ==
  IF HookHas(chs, sServer)
    THEN [i \in 1..Len(chs) |->
            IF \E j \in 1..Len(affectedChannels) : affectedChannels[j] = chs[i].name
              THEN [chs[i] EXCEPT !.users = MapDelete(@, nick)]
              ELSE chs[i]]
    ELSE chs

\* the listeners the hook subscribed (connected, disconnected, error,
\* message, system, join, part, quit), on the event e
HookOn(chs, e) ==
  IF e.k # "emit" THEN chs
  ELSE IF e.name = "system" THEN HookHandleSystem(chs)
  ELSE IF e.name = "join" THEN HookHandleJoin(chs, e.args[1], e.args[2])
  ELSE IF e.name = "part" THEN HookHandlePart(chs, e.args[1], e.args[2])
  ELSE IF e.name = "quit" THEN HookHandleQuit(chs, e.args[1], e.args[3])
  ELSE chs

\* the hook after the events of a turn, from the i-th entry of the log on
RECURSIVE HookAfter(_, _, _)
HookAfter(h, effs, i) ==
  IF ~h.mounted \/ i > Len(effs) THEN h
  ELSE HookAfter([h EXCEPT !.channels = HookOn(@, effs[i])], effs, i + 1)

----------------------------------------------------------------------------
(* The event-loop turns.                                                   *)

\* the fields of a new IrcClient, with no socket and no timer yet
InitialWorld ==
  [connectionState |-> "disconnected", socket |-> 0, server |-> <<>>,
   port |-> 6667, currentNick |-> <<>>, reconnectAttempts |-> 0,
   pingInterval |-> FALSE, lastPingTime |-> 0, channels |-> <<>>,
   socks |-> <<>>, reconnectTimers |-> [live |-> 0, superseded |-> 0],
   pingTimers |-> 0, now |-> StartNow, wire |-> <<>>,
   hook |-> [mounted |-> FALSE, channels |-> <<>>], effects |-> <<>>,
   exc |-> ""]

\* the state is world w, reached by the given turn
Holds(w, turn) ==
  /\ connectionState = w.connectionState
  /\ socket = w.socket
  /\ server = w.server
  /\ port = w.port
  /\ currentNick = w.currentNick
  /\ reconnectAttempts = w.reconnectAttempts
  /\ pingInterval = w.pingInterval
  /\ lastPingTime = w.lastPingTime
  /\ channels = w.channels
  /\ socks = w.socks
  /\ reconnectTimers = w.reconnectTimers
  /\ pingTimers = w.pingTimers
  /\ now = w.now
  /\ wire = w.wire
  /\ nReconnectFailed = 0
  /\ hook = w.hook
  /\ op = turn
  /\ effects = w.effects

Init ==
  Holds(InitialWorld,
        [name |-> "init", sock |-> 0, pre |-> "disconnected", arg |-> <<>>])

\* the turn: its name, the socket whose event it is (0 if none), the
\* connection state it started in, and its inputs; for an event of a socket
\* the inputs are followed by what the socket was before: the state of its
\* promise, whether disconnect() had ended it, and how many sets of
\* listeners it had
Turn(name, s, arg) ==
  [name |-> name, sock |-> s, pre |-> connectionState, arg |-> arg]

\* an exception that leaves the turn: thrown to the caller of an outbound
\* intent or of connect ("throw"), out of a timer callback ("uncaught"), or
\* as the rejection of a promise nobody awaits ("unhandled_rejection")
Escaped(w, how) ==
  IF w.exc = "" THEN w
  ELSE Log([w EXCEPT !.exc = ""], Eff(how, 0, w.exc, <<>>, 0))

Emitted(effs, ev) ==
  Cardinality({i \in 1..Len(effs) : effs[i].k = "emit" /\ effs[i].name = ev})

\* the turn ends: the variables take the values of the world the handlers
\* left, a value computed once
Commit(world, turn) ==
  \E w \in {world} :
  /\ connectionState' = w.connectionState
  /\ socket' = w.socket
  /\ server' = w.server
  /\ port' = w.port
  /\ currentNick' = w.currentNick
  /\ reconnectAttempts' = w.reconnectAttempts
  /\ pingInterval' = w.pingInterval
  /\ lastPingTime' = w.lastPingTime
  /\ channels' = w.channels
  /\ socks' = [s \in 1..Len(w.socks) |->
                 IF w.socks[s].tcp = "closed" THEN ClosedSocket ELSE w.socks[s]]
  /\ reconnectTimers' = w.reconnectTimers
  /\ pingTimers' = w.pingTimers
  /\ now' = w.now
  /\ wire' = w.wire
  /\ nReconnectFailed' = nReconnectFailed + Emitted(w.effects, "reconnect_failed")
  /\ hook' = HookAfter(w.hook, w.effects, 1)
  /\ op' = turn
  /\ effects' = w.effects

\* the user calls connect(server, port, nick)
Connect(args) ==
  Commit(Escaped(ConnectSync(World, args[1], args[2], args[3]), "throw"),
         Turn("connect", 0, args))

\* the user calls disconnect(); the reconnect timers pending at that moment
\* are from then on timers of a superseded connection
Disconnect ==
  LET w == DisconnectSync(World) IN
  Commit([w EXCEPT !.reconnectTimers =
            [live |-> 0, superseded |-> @.live + @.superseded]],
         Turn("disconnect", socket, <<>>))

\* a setTimeout callback of scheduleReconnect fires
ReconnectTimer(kind) ==
  /\ reconnectTimers[kind] > 0
  /\ LET w0 == [World EXCEPT !.reconnectTimers[kind] = @ - 1] IN
     Commit(Escaped(ConnectSync(w0, server, port, currentNick),
                    "unhandled_rejection"),
            Turn("reconnect_timer", 0, <<kind>>))

\* socket s is established: "connect" is emitted on it
SockConnect(s) ==
  /\ socks[s].tcp = "connecting"
  /\ LET w0 == [World EXCEPT !.socks[s].tcp = "open",
                             !.socks[s].promise = "settled"]
     IN Commit(IF socks[s].promise = "pending"
                 THEN ConnectResolved(w0, socks[s].nick) ELSE w0,
               Turn("sock_connect", s, <<socks[s].promise, socks[s].ended, socks[s].handlers>>))

\* socket s was idle for 30 s while the promise of its connect() is pending:
\* "timeout" is emitted on it; nothing closes the socket
SockTimeout(s) ==
  /\ socks[s].tcp = "connecting"
  /\ socks[s].promise = "pending"
  /\ Commit(ConnectRejected([World EXCEPT !.socks[s].promise = "settled"],
                            "Connection timeout"),
            Turn("sock_timeout", s, <<socks[s].promise, socks[s].ended, socks[s].handlers>>))

\* socket s fails: "error" and then "close" are emitted on it, and after the
\* listeners of both the rejected connect() continues in its catch block
SockError(s) ==
  /\ socks[s].tcp \in {"connecting", "open"}
  /\ LET w0 == [World EXCEPT !.socks[s].tcp = "closed",
                             !.socks[s].promise = "settled"]
         w1 == OnCloseN(OnErrorN(w0, socks[s].handlers), socks[s].handlers)
     IN Commit(IF socks[s].promise = "pending"
                 THEN ConnectRejected(w1, "socket error") ELSE w1,
               Turn("sock_error", s, <<socks[s].promise, socks[s].ended, socks[s].handlers>>))

\* the established socket s is closed: "close" is emitted on it
SockClose(s) ==
  /\ socks[s].tcp = "open"
  /\ Commit(OnCloseN([World EXCEPT !.socks[s].tcp = "closed"], socks[s].handlers),
            Turn("sock_close", s, <<socks[s].promise, socks[s].ended, socks[s].handlers>>))

\* the text a framer that waits for the line terminator would still hold
\* after data arrived behind carry
CarryAfter(carry, data) ==
  LET parts == Split(carry \o data, LF) IN parts[Len(parts)]

\* data arrives on the established socket s: "data" is emitted on it;
\* rest is what stays in flight
SockRead(s, data, rest) ==
  /\ socks[s].tcp = "open"
  /\ socks[s].handlers > 0
  /\ Commit(OnDataN([World EXCEPT !.socks[s].carry = CarryAfter(@, data),
                                  !.wire = rest],
                    data, socks[s].handlers),
            Turn("sock_data", s, <<data, socks[s].carry>>))

\* a whole line, or several, arrives on socket s in one read
SockData(s, data) == SockRead(s, data, wire)

\* a setInterval callback of startPingTimer fires
PingTick ==
  /\ pingTimers > 0
  /\ Commit(Escaped(PingCheck(World), "uncaught"), Turn("ping_tick", 0, <<>>))

\* the user's outbound intents
DoJoin(channel) ==
  Commit(Escaped(Join(World, channel), "throw"), Turn("join", socket, <<channel>>))

DoPart(channel, reason) ==
  Commit(Escaped(Part(World, channel, reason), "throw"),
         Turn("part", socket, <<channel, reason>>))

DoPrivmsg(target, message) ==
  Commit(Escaped(Privmsg(World, target, message), "throw"),
         Turn("privmsg", socket, <<target, message>>))

DoNick(newNick) ==
  Commit(Escaped(Nick(World, newNick), "throw"), Turn("nick", socket, <<newNick>>))

DoQuit(reason) ==
  Commit(Escaped(Quit(World, reason), "throw"), Turn("quit", socket, <<reason>>))

Sockets == 1..Len(socks)

Next ==
  \/ \E args \in ConnectArgs : Connect(args) /\ Len(socks') <= MaxSockets
  \/ Disconnect
  \/ \E kind \in {"live", "superseded"} :
       ReconnectTimer(kind) /\ Len(socks') <= MaxSockets
  \/ \E s \in Sockets : SockConnect(s)
  \/ \E s \in Sockets : SockTimeout(s)
  \/ \E s \in Sockets : SockError(s)
  \/ \E s \in Sockets : SockClose(s)
  \/ \E s \in Sockets : \E data \in DataChunks : SockData(s, data)
  \/ PingTick
  \/ DoJoin(sTest)
  \/ DoPart(sHashA, sBye)
  \/ DoPrivmsg(sHashA, sHi)
  \/ DoNick(sYu)
  \/ DoQuit(sBye)

Spec == Init /\ [][Next]_vars

----------------------------------------------------------------------------
(* The retry scenario: one accepted connect call, then every attempt       *)
(* fails or times out; the user neither disconnects nor connects again.    *)

\* a socket that timed out is established after all: nobody listens
LateConnect(s) == socks[s].promise = "settled" /\ SockConnect(s)

NextRetry ==
  \/ \E args \in ConnectArgs : Len(socks) = 0 /\ Connect(args)
  \/ ReconnectTimer("live") /\ Len(socks') <= MaxRetrySockets
  \/ \E s \in Sockets : SockTimeout(s)
  \/ \E s \in Sockets : SockError(s)
  \/ \E s \in Sockets : LateConnect(s)
  \/ \E s \in Sockets : SockClose(s)
  \/ DoJoin(sTest)
  \/ DoQuit(sBye)

SpecRetry == Init /\ [][NextRetry]_vars

----------------------------------------------------------------------------
(* The framing scenario: the client is connected and the server's lines    *)
(* reach it in reads that TCP cuts anywhere.                               *)

\* the client after connect(a, 6667, me) and the "connect" event of its socket
ConnectedWorld ==
  LET w1 == ConnectSync(InitialWorld, sA, 6667, sMe)
      w2 == [w1 EXCEPT !.socks[1].tcp = "open", !.socks[1].promise = "settled",
                       !.effects = <<>>]
  IN ConnectResolved(w2, sMe)

InitFrame ==
  Holds(ConnectedWorld,
        [name |-> "sock_connect", sock |-> 1, pre |-> "connecting",
         arg |-> <<"pending", FALSE, 0>>])

ServerLines ==
  {<<"P", "R", "I", "V", "M", "S", "G", " ", "#", "a", " ", ":", "h", "i", CR, LF>>,
   <<"P", "I", "N", "G", " ", ":", "x", CR, LF>>}

\* the server sends a line
ServerSends(line) ==
  Commit([World EXCEPT !.wire = @ \o line], Turn("server_sends", socket, <<line>>))

\* one read of socket s returns the first k characters in flight
Read(s, k) ==
  /\ k \in 1..Len(wire)
  /\ SockRead(s, SubSeq(wire, 1, k), SubSeq(wire, k + 1, Len(wire)))

NextFrame ==
  \/ \E line \in ServerLines : Len(wire) + Len(line) <= MaxWire /\ ServerSends(line)
  \/ \E k \in 1..MaxWire : Read(1, k)

SpecFrame == InitFrame /\ [][NextFrame]_vars

----------------------------------------------------------------------------
(* The session: the client is connected as me and the server's lines reach *)
(* it whole, one line a read.                                              *)

\* :yu!u@h JOIN #a
lineJoinYuA ==
  <<COLON, "y", "u", "!", "u", "@", "h", SP, "J", "O", "I", "N", SP, "#",
    "a", CR, LF>>

\* :yu JOIN #b
lineJoinYuB ==
  <<COLON, "y", "u", SP, "J", "O", "I", "N", SP, "#", "b", CR, LF>>

\* :me JOIN #a
lineJoinMeA ==
  <<COLON, "m", "e", SP, "J", "O", "I", "N", SP, "#", "a", CR, LF>>

\* :yu PART #a :bye
linePartYuA ==
  <<COLON, "y", "u", SP, "P", "A", "R", "T", SP, "#", "a", SP, COLON, "b",
    "y", "e", CR, LF>>

\* :me PART #a
linePartMeA ==
  <<COLON, "m", "e", SP, "P", "A", "R", "T", SP, "#", "a", CR, LF>>

\* :yu PART #c
linePartYuC ==
  <<COLON, "y", "u", SP, "P", "A", "R", "T", SP, "#", "c", CR, LF>>

\* :yu QUIT :bye
lineQuitYu ==
  <<COLON, "y", "u", SP, "Q", "U", "I", "T", SP, COLON, "b", "y", "e", CR,
    LF>>

\* :yu NICK bo
lineNickYuBo ==
  <<COLON, "y", "u", SP, "N", "I", "C", "K", SP, "b", "o", CR, LF>>

\* :me NICK yu
lineNickMeYu ==
  <<COLON, "m", "e", SP, "N", "I", "C", "K", SP, "y", "u", CR, LF>>

\* :s 353 me = #a :@yu +bo me
lineNamesA ==
  <<COLON, "s", SP, "3", "5", "3", SP, "m", "e", SP, "=", SP, "#", "a",
    SP, COLON, "@", "y", "u", SP, "+", "b", "o", SP, "m", "e", CR, LF>>

\* :s 353 me = #b :yu
lineNamesB ==
  <<COLON, "s", SP, "3", "5", "3", SP, "m", "e", SP, "=", SP, "#", "b",
    SP, COLON, "y", "u", CR, LF>>

\* :s 332 me #a :t
lineTopicA ==
  <<COLON, "s", SP, "3", "3", "2", SP, "m", "e", SP, "#", "a", SP, COLON,
    "t", CR, LF>>

\* :yu PRIVMSG #b :hi
lineMsgYuB ==
  <<COLON, "y", "u", SP, "P", "R", "I", "V", "M", "S", "G", SP, "#", "b",
    SP, COLON, "h", "i", CR, LF>>

\* :yu PRIVMSG me :hi
lineMsgYuMe ==
  <<COLON, "y", "u", SP, "P", "R", "I", "V", "M", "S", "G", SP, "m", "e",
    SP, COLON, "h", "i", CR, LF>>

\* :yu PRIVMSG #a : (a text of one space)
lineMsgBlank ==
  <<COLON, "y", "u", SP, "P", "R", "I", "V", "M", "S", "G", SP, "#", "a",
    SP, COLON, SP, CR, LF>>

\* one read may hold several lines: the same 353 reply twice
SessionChunks ==
  {lineJoinYuA, lineJoinYuB, lineJoinMeA, linePartYuA, linePartMeA,
   linePartYuC, lineQuitYu, lineNickYuBo, lineNickMeYu, lineNamesA,
   lineNamesB, lineTopicA, lineMsgYuB, lineMsgYuMe, lineMsgBlank,
   lineNamesA \o lineNamesA, lineNamesB \o lineNamesB}

InitSession ==
  Holds(ConnectedWorld,
        [name |-> "sock_connect", sock |-> 1, pre |-> "connecting",
         arg |-> <<"pending", FALSE, 0>>])

NextSession == \E data \in SessionChunks : SockData(1, data)

SpecSession == InitSession /\ [][NextSession]_vars

----------------------------------------------------------------------------
(* The stream: the client is connected as me, the server's reads hold      *)
(* well-formed and malformed lines, and the user sends.                    *)

\* :bad (a prefix that no space follows)
lineBad == <<COLON, "b", "a", "d", CR, LF>>

\* an empty line
lineEmpty == <<CR, LF>>

\* a line of one space
lineBlank == <<SP, CR, LF>>

StreamChunks ==
  {lineJoinYuA, lineMsgYuB, lineNickMeYu, lineNamesA,
   lineBad, lineEmpty, lineBlank,
   lineBad \o lineJoinYuA, lineEmpty \o lineMsgYuB,
   lineJoinYuA \o lineBad \o lineBlank \o lineNamesA}

NextStream ==
  \/ \E data \in StreamChunks : SockData(1, data)
  \/ DoJoin(sTest)
  \/ DoPart(sHashA, sBye)
  \/ DoPrivmsg(sHashA, sHi)
  \/ DoNick(sYu)
  \/ DoQuit(sBye)

SpecStream == InitSession /\ [][NextStream]_vars

----------------------------------------------------------------------------
(* The life of one connection after another: one explicit connect call,    *)
(* a session on the established socket, the loss of the connection and the *)
(* automatic reconnection; the user neither disconnects nor connects again.*)

LifeChunks == {lineJoinMeA, lineJoinYuA, lineNickMeYu}

NextLife ==
  \/ \E args \in ValidConnectArgs : Len(socks) = 0 /\ Connect(args)
  \/ ReconnectTimer("live") /\ Len(socks') <= MaxLifeSockets
  \/ \E s \in Sockets : SockConnect(s)
  \/ \E s \in Sockets : SockError(s)
  \/ \E s \in Sockets : SockClose(s)
  \/ \E s \in Sockets : \E data \in LifeChunks : SockData(s, data)

SpecLife == Init /\ [][NextLife]_vars

----------------------------------------------------------------------------
(* The keepalive scenario: the client is connected, time passes, the       *)
(* interval timer of startPingTimer fires and the server sends PONG and    *)
(* PING lines.                                                             *)

linePong ==
  <<COLON, "s", SP, "P", "O", "N", "G", SP, "s", SP, COLON, "a", CR, LF>>

linePing == <<"P", "I", "N", "G", SP, COLON, "s", CR, LF>>

\* Date.now() advances by one period of the interval timer
Elapse ==
  /\ now < StartNow + MaxTicks * PingCheckInterval
  /\ Commit([World EXCEPT !.now = @ + PingCheckInterval], Turn("elapse", 0, <<>>))

NextKeepalive ==
  \/ Elapse
  \/ PingTick
  \/ \E data \in {linePong, linePing} : SockData(1, data)

SpecKeepalive == InitSession /\ [][NextKeepalive]_vars

----------------------------------------------------------------------------
(* The scenario of the impatient user: every socket is opened by an        *)
(* explicit connect call, every attempt fails or times out, and the user   *)
(* connects again (or disconnects) before a reconnect timer has fired.     *)

NextAgain ==
  \/ \E args \in ValidConnectArgs : Connect(args) /\ Len(socks') <= MaxAgainSockets
  \/ Disconnect
  \/ \E s \in Sockets : SockTimeout(s)
  \/ \E s \in Sockets : SockError(s)

SpecAgain == Init /\ [][NextAgain]_vars

----------------------------------------------------------------------------
(* The join scenario: the traffic of the stream scenario, and the user     *)
(* joins channels whose names come with and without '#', empty, and with a *)
(* colon or a space in them.                                               *)

JoinNames ==
  {sHashA, <<>>, <<"a", COLON, "b">>, <<HASH, "a", COLON, "b">>,
   <<"a", SP, "b">>}

NextJoin ==
  \/ NextStream
  \/ \E name \in JoinNames : DoJoin(name)

SpecJoin == InitSession /\ [][NextJoin]_vars

----------------------------------------------------------------------------
(* The parse scenario: a line is put together from an optional prefix, a   *)
(* command, middle parameters and an optional trailing parameter, and      *)
(* parsed.                                                                 *)

\* the sequences of at most n middle parameters
RECURSIVE MiddlesUpTo(_)
MiddlesUpTo(n) ==
  IF n = 0 THEN {<<>>}
  ELSE MiddlesUpTo(n - 1)
         \cup {Append(ps, p) : ps \in {q \in MiddlesUpTo(n - 1) : Len(q) = n - 1},
                               p \in {sA, sHashA}}

\* the trailing parameters tried; the first field tells whether there is one
Trailings ==
  {<<FALSE, <<>>>>, <<TRUE, <<>>>>, <<TRUE, sHi>>, <<TRUE, <<"a", SP, "b">>>>,
   <<TRUE, <<COLON, "a">>>>, <<TRUE, <<"a", SP, SP, "b">>>>}

\* the prefixes tried; the first field tells whether there is one
Prefixes == {<<FALSE, <<>>>>, <<TRUE, <<"y", "u", BANG, "u", "@", "h">>>>}

\* the line [:prefix ]COMMAND p1 ... pn[ :trailing]
LineOf(prefix, command, middles, trailing) ==
  (IF prefix[1] THEN <<COLON>> \o prefix[2] \o <<SP>> ELSE <<>>)
  \o command
  \o JoinWith([i \in 1..Len(middles) |-> <<SP>> \o middles[i]], <<>>)
  \o (IF trailing[1] THEN <<SP, COLON>> \o trailing[2] ELSE <<>>)

InitParse ==
  \E prefix \in Prefixes, middles \in MiddlesUpTo(MaxParams), trailing \in Trailings :
    Holds([InitialWorld EXCEPT !.wire = LineOf(prefix, sJOIN, middles, trailing)],
          [name |-> "form", sock |-> 0, pre |-> "disconnected",
           arg |-> <<prefix, sJOIN, middles, trailing>>])

\* parse(line); the turn keeps the parts of the line and the message
ParseLine ==
  /\ op.name = "form"
  /\ Commit(World, Turn("parse", 0, Append(op.arg, Parse(wire))))

NextParse == ParseLine

SpecParse == InitParse /\ [][NextParse]_vars

----------------------------------------------------------------------------
(* The format scenario: format is called with a command and a list of      *)
(* parameters, empty ones and ones with a space or a colon among them.     *)

FormatValues == {<<>>, sA, <<"a", SP, "b">>, <<COLON, "a">>}

\* the parameter lists of length n
RECURSIVE ParamLists(_)
ParamLists(n) ==
  IF n = 0 THEN {<<>>}
  ELSE {Append(ps, p) : ps \in ParamLists(n - 1), p \in FormatValues}

InitFormat ==
  \E params \in UNION {ParamLists(n) : n \in 0..MaxFormatParams} :
    Holds(InitialWorld,
          [name |-> "call", sock |-> 0, pre |-> "disconnected",
           arg |-> <<sPRIVMSG, params>>])

\* format(command, params); the turn keeps the arguments and the result
FormatCall ==
  /\ op.name = "call"
  /\ Commit(World, Turn("format", 0, Append(op.arg, Format(op.arg[1], op.arg[2]))))

NextFormat == FormatCall

SpecFormat == InitFormat /\ [][NextFormat]_vars

----------------------------------------------------------------------------
(* The scenario of progress: one explicit connect call; every attempt      *)
(* succeeds, fails or times out; an established connection is not lost.    *)
(* Every pending reconnect timer fires and every attempt is settled.       *)

\* socket s fails before it is established
ConnectFails(s) == socks[s].tcp = "connecting" /\ SockError(s)

\* the attempt on socket s is settled: it succeeds, fails or times out
AttemptSettles(s) ==
  /\ socks[s].promise = "pending"
  /\ (SockConnect(s) \/ SockTimeout(s) \/ ConnectFails(s))

NextProgress ==
  \/ \E args \in ValidConnectArgs : Len(socks) = 0 /\ Connect(args)
  \/ ReconnectTimer("live") /\ Len(socks') <= MaxRetrySockets
  \/ \E s \in Sockets : SockConnect(s)
  \/ \E s \in Sockets : SockTimeout(s)
  \/ \E s \in Sockets : ConnectFails(s)

SpecProgress ==
  /\ Init
  /\ [][NextProgress]_vars
  /\ WF_vars(ReconnectTimer("live") /\ Len(socks') <= MaxRetrySockets)
  /\ WF_vars(\E s \in 1..MaxRetrySockets : s \in Sockets /\ AttemptSettles(s))

----------------------------------------------------------------------------
(* The scenario of the second try: one connect call whose attempts all     *)
(* fail or time out, and once reconnect_failed was emitted the user calls  *)
(* connect again.                                                          *)

ConnectAgain ==
  /\ nReconnectFailed >= 1
  /\ \E args \in ValidConnectArgs : Connect(args) /\ Len(socks') <= MaxRetrySockets

NextBudget ==
  \/ \E args \in ValidConnectArgs : Len(socks) = 0 /\ Connect(args)
  \/ ReconnectTimer("live") /\ Len(socks') <= MaxRetrySockets
  \/ \E s \in Sockets : SockTimeout(s)
  \/ \E s \in Sockets : SockError(s)
  \/ ConnectAgain

SpecBudget == Init /\ [][NextBudget]_vars

----------------------------------------------------------------------------
(* The scenario of the UI: the client is connected through the hook's      *)
(* connect, which has subscribed its listeners and made its Server         *)
(* channel, and whole lines arrive.                                        *)

HookChunks ==
  {lineJoinYuA, lineJoinYuB, lineJoinMeA, linePartYuA, lineQuitYu,
   lineNickYuBo, lineNamesA}

InitHook ==
  Holds([ConnectedWorld EXCEPT
           !.hook = [mounted |-> TRUE, channels |-> HookHandleSystem(<<>>)]],
        [name |-> "sock_connect", sock |-> 1, pre |-> "connecting",
         arg |-> <<"pending", FALSE, 0>>])

NextHook == \E data \in HookChunks : SockData(1, data)

SpecHook == InitHook /\ [][NextHook]_vars

----------------------------------------------------------------------------
(* The codec alone: a line is parsed, its command and parameters are       *)
(* formatted, and the result is parsed again.                              *)

\* the characters of the lines tried
CodecAlphabet == {"a", SP, COLON}

\* the strings over CodecAlphabet of length n
RECURSIVE StringsOfLen(_)
StringsOfLen(n) ==
  IF n = 0 THEN {<<>>}
  ELSE {<<c>> \o t : c \in CodecAlphabet, t \in StringsOfLen(n - 1)}

\* what may follow the command by the wire grammar
\* command SPACE* param* [SPACE ":" trailing]: parameters set off by one
\* space each, not empty and not starting with a colon, then at most one
\* trailing parameter of any text
RECURSIVE ValidRest(_)
ValidRest(r) ==
  IF Len(r) = 0 THEN TRUE
  ELSE IF r[1] # SP \/ Len(r) = 1 THEN FALSE
  ELSE IF r[2] = COLON THEN TRUE
  ELSE IF r[2] = SP THEN FALSE
  ELSE LET after == SubstringFrom(r, 1)
           paramEnd == IndexOf(after, SP)
       IN IF paramEnd = -1 THEN TRUE
          ELSE ValidRest(SubstringFrom(after, paramEnd))

\* the syntactically valid lines tried: the command X and a valid rest
CodecLines ==
  {<<"X">> \o r : r \in {t \in UNION {StringsOfLen(n) : n \in 0..MaxTail} :
                           ValidRest(t)}}

InitCodec ==
  \E line \in CodecLines :
    Holds([InitialWorld EXCEPT !.wire = line],
          [name |-> "line", sock |-> 0, pre |-> "disconnected", arg |-> <<>>])

\* parse(line), format(its command, its params), parse of that
RoundTrip ==
  /\ op.name = "line"
  /\ LET first == Parse(wire)
         line2 == Format(first.command, first.params)
         again == Parse(line2)
     IN Commit(World, Turn("roundtrip", 0, <<first, line2, again>>))

NextCodec == RoundTrip

SpecCodec == InitCodec /\ [][NextCodec]_vars

----------------------------------------------------------------------------
(* What a turn did, read from its log.                                     *)

\* the entries of kind k, in order
OfKind(effs, k) == SelectSeq(effs, LAMBDA e : e.k = k)

\* the turn wrote nothing to any socket
WroteNothing(effs) == Len(OfKind(effs, "write")) = 0

\* the turn emitted no event
EmittedNothing(effs) == Len(OfKind(effs, "emit")) = 0

\* the turn opened no socket
OpenedNoSocket(effs) ==
  \A i \in 1..Len(effs) : ~(effs[i].k = "socket" /\ effs[i].name = "connect")

\* the turn armed no reconnect timer
ScheduledNoReconnect(effs) == Len(OfKind(effs, "timeout")) = 0

\* the call failed with the error msg
Threw(effs, msg) ==
  \E i \in 1..Len(effs) : effs[i].k = "throw" /\ effs[i].name = msg

InvalidArgumentErrors ==
  {"Invalid server address", "Invalid port number", "Invalid nickname"}

OutboundTurns == {"join", "part", "privmsg", "nick", "quit"}

\* the fields of the client and its sockets and timers
programVars ==
  <<connectionState, socket, server, port, currentNick, reconnectAttempts,
    pingInterval, lastPingTime, channels, socks, reconnectTimers, pingTimers>>

----------------------------------------------------------------------------
(* C1: reconnect bound.  Under SpecRetry (one accepted connect call whose   *)
(* attempt fails, and every automatic attempt fails too) at most            *)
(* maxReconnectAttempts automatic attempts are made, so at most             *)
(* 1 + maxReconnectAttempts sockets are ever opened; reconnect_failed is    *)
(* emitted exactly when the last of them has failed, it is emitted once,    *)
(* and from then on no reconnect timer is pending.                          *)
C1_ReconnectBound ==
  /\ Len(socks) <= 1 + maxReconnectAttempts
  /\ nReconnectFailed <= 1
  /\ (nReconnectFailed = 1) <=>
       (/\ Len(socks) = 1 + maxReconnectAttempts
        /\ \A s \in Sockets : socks[s].promise = "settled")
  /\ nReconnectFailed = 1 =>
       (/\ reconnectTimers.live = 0
        /\ reconnectAttempts = maxReconnectAttempts
        /\ connectionState \notin {"connecting", "reconnecting"})

C1_Witness ==
  /\ op.name \in {"sock_error", "sock_timeout"}
  /\ op.sock = 1 + maxReconnectAttempts
  /\ Emitted(effects, "reconnect_failed") = 1
  /\ nReconnectFailed = 1

----------------------------------------------------------------------------
(* C2: when the "close" of an established socket reaches the client in      *)
(* state connected, the state becomes disconnected and a reconnect is       *)
(* scheduled if and only if disconnect() had not ended that socket; the     *)
(* close of a socket that disconnect() ended emits no reconnecting event    *)
(* and arms no reconnect timer.                                             *)
C2_CloseReconnectsUnlessDisconnected ==
  op.name = "sock_close" =>
    IF op.arg[2]
      THEN /\ Emitted(effects, "reconnecting") = 0
           /\ ScheduledNoReconnect(effects)
      ELSE (op.pre = "connected" /\ op.arg[3] > 0) =>
             /\ Emitted(effects, "disconnected") >= 1
             /\ Emitted(effects, "reconnecting") >= 1
             /\ ~ScheduledNoReconnect(effects)

----------------------------------------------------------------------------
(* C3: a reconnect timer that was pending when disconnect() was called is   *)
(* a no-op when it fires: it opens no socket, emits nothing and leaves the  *)
(* connection state as it was.                                              *)
C3_SupersededTimerIsNoOp ==
  (op.name = "reconnect_timer" /\ op.arg[1] = "superseded") =>
    /\ OpenedNoSocket(effects)
    /\ EmittedNothing(effects)
    /\ connectionState = op.pre

----------------------------------------------------------------------------
(* C4: when the TCP connect of an attempt that disconnect() cancelled       *)
(* (its socket was ended while its promise was pending) succeeds, fails or  *)
(* times out, nothing is written, no event is emitted, no reconnect is      *)
(* scheduled and the connection state stays as it was.                      *)
C4_CancelledAttemptIsSilent ==
  (/\ op.name \in {"sock_connect", "sock_error", "sock_timeout"}
   /\ op.arg[1] = "pending"
   /\ op.arg[2]) =>
    /\ WroteNothing(effects)
    /\ EmittedNothing(effects)
    /\ ScheduledNoReconnect(effects)
    /\ connectionState = op.pre

----------------------------------------------------------------------------
(* C5: fragmented frame.  The messages one read dispatches are exactly the  *)
(* parses of the lines that this read completes, a line being what lies     *)
(* between two line terminators of the stream wherever the reads cut it.    *)

\* the <<command, params>> pairs the turn handed to processMessage
Dispatched(effs) ==
  LET d == OfKind(effs, "dispatch") IN [i \in 1..Len(d) |-> d[i].args]

\* the lines that data completes behind carry
CompletedLines(carry, data) ==
  LET parts == Split(carry \o data, LF) IN SubSeq(parts, 1, Len(parts) - 1)

\* the messages of the lines from the i-th on: blank and malformed lines
\* are skipped
RECURSIVE MessagesOf(_, _)
MessagesOf(lines, i) ==
  IF i > Len(lines) THEN <<>>
  ELSE LET m == Parse(lines[i]) IN
       (IF m.ok THEN <<<<m.command, m.params>>>> ELSE <<>>)
       \o MessagesOf(lines, i + 1)

C5_FragmentedFrame ==
  op.name = "sock_data" =>
    Dispatched(effects) = MessagesOf(CompletedLines(op.arg[2], op.arg[1]), 1)

----------------------------------------------------------------------------
(* C6: connect (with valid arguments, so that no other error applies)       *)
(* called in state connecting, connected or reconnecting is                 *)
(* rejected with "Already connecting" or "Already connected" and changes    *)
(* neither the connection state nor the stored server, port and nick nor    *)
(* the socket nor the reconnect counter.                                    *)
C6_ConnectRejectedWhenBusy ==
  [][(/\ op'.name = "connect"
      /\ op'.arg \in ValidConnectArgs
      /\ connectionState \in {"connecting", "connected", "reconnecting"})
     => /\ \/ Threw(effects', "Already connecting")
           \/ Threw(effects', "Already connected")
        /\ UNCHANGED <<connectionState, server, port, currentNick, socket,
                       socks, reconnectAttempts>>]_vars

----------------------------------------------------------------------------
(* C7, as claimed: connect with an empty host, a port outside [1, 65535]    *)
(* or an empty nick fails with an invalid-argument error, opens no socket,  *)
(* emits nothing and changes no field of the client.                        *)
C7_InvalidArgumentAlways ==
  [][(op'.name = "connect" /\ op'.arg \in InvalidConnectArgs)
     => /\ \E msg \in InvalidArgumentErrors : Threw(effects', msg)
        /\ EmittedNothing(effects')
        /\ OpenedNoSocket(effects')
        /\ UNCHANGED programVars]_vars

(* C7, amended: such a call always fails, opens no socket, emits nothing   *)
(* and changes no field of the client; the error is the invalid-argument   *)
(* error of the first offending argument unless the state is connecting    *)
(* or connected, where it is "Already connecting" or "Already connected".  *)
C7_InvalidArgumentUnlessBusy ==
  [][(op'.name = "connect" /\ op'.arg \in InvalidConnectArgs)
     => /\ Len(effects') = 1
        /\ effects'[1].k = "throw"
        /\ effects'[1].name =
             (IF connectionState = "connecting" THEN "Already connecting"
              ELSE IF connectionState = "connected" THEN "Already connected"
              ELSE IF Len(op'.arg[1]) = 0 THEN "Invalid server address"
              ELSE IF op'.arg[2] < 1 \/ op'.arg[2] > 65535
                THEN "Invalid port number"
              ELSE "Invalid nickname")
        /\ UNCHANGED programVars]_vars

C7_Witness ==
  /\ op.name = "connect"
  /\ op.arg = <<sA, 65536, sMe>>
  /\ op.pre = "reconnecting"
  /\ Threw(effects, "Invalid port number")
  /\ connectionState = "reconnecting"

----------------------------------------------------------------------------
(* C8: when the TCP connect of an attempt that was not cancelled succeeds,  *)
(* the first two lines ever written on its socket are NICK <nick> and       *)
(* USER <nick> 0 * <nick>, then the keepalive timer is started, and only    *)
(* then the state is set to connected and connected is emitted; the         *)
(* reconnect counter is zero afterwards.                                    *)

\* the position of the first entry of kind k and name n, 0 if there is none
FirstAt(effs, k, n) ==
  IF \E i \in 1..Len(effs) : effs[i].k = k /\ effs[i].name = n
    THEN CHOOSE i \in 1..Len(effs) :
           /\ effs[i].k = k /\ effs[i].name = n
           /\ \A j \in 1..(i - 1) : ~(effs[j].k = k /\ effs[j].name = n)
    ELSE 0

C8_HandshakeFirst ==
  (op.name = "sock_connect" /\ op.arg[1] = "pending" /\ ~op.arg[2]) =>
    LET writes == OfKind(effects, "write")
        nick == socks[op.sock].nick
    IN /\ Len(writes) >= 2
       /\ writes[1] = Eff("write", op.sock, "first",
                          <<sNICK \o <<SP>> \o nick \o CRLF>>, 0)
       /\ writes[2] = Eff("write", op.sock, "later",
                          <<sUSER \o <<SP>> \o nick \o <<SP, "0", SP, "*", SP>>
                            \o nick \o CRLF>>, 0)
       /\ FirstAt(effects, "interval", "start") > 0
       /\ FirstAt(effects, "state", "connected")
            > FirstAt(effects, "interval", "start")
       /\ FirstAt(effects, "emit", "connected")
            > FirstAt(effects, "state", "connected")
       /\ reconnectAttempts = 0
       /\ connectionState = "connected"

----------------------------------------------------------------------------
(* C9: join, part, privmsg, nick or quit called in a state other than       *)
(* connected fails with "Not connected" and writes nothing to any socket.   *)
C9_OutboundNeedsConnected ==
  (op.name \in OutboundTurns /\ op.pre # "connected") =>
    /\ Threw(effects, "Not connected")
    /\ WroteNothing(effects)

----------------------------------------------------------------------------
(* C10: every PING processed in state connected is answered at once by      *)
(* exactly one written line, a PONG with the parameters of the PING, and    *)
(* a read writes as many lines as it holds PING lines.                      *)
C10_PongEchoesPing ==
  (op.name = "sock_data" /\ op.pre = "connected") =>
    /\ \A i \in 1..Len(effects) :
      (effects[i].k = "dispatch" /\ ToUpperCase(effects[i].args[1]) = sPING) =>
        /\ i + 1 <= Len(effects)
        /\ effects[i + 1].k = "write"
        /\ LET line == effects[i + 1].args[1]
               body == Substring(line, 0, Len(line) - 2)
           IN /\ SubstringFrom(line, Len(line) - 2) = CRLF
              /\ Parse(body).ok
              /\ Parse(body).command = sPONG
              /\ Parse(body).params = effects[i].args[2]
        /\ (i + 2 <= Len(effects) => effects[i + 2].k # "write")
    /\ Len(OfKind(effects, "write")) =
         Len(SelectSeq(MessagesOf(CompletedLines(<<>>, op.arg[1]), 1),
                       LAMBDA m : ToUpperCase(m[1]) = sPING))

----------------------------------------------------------------------------
(* C11: round trip.  For every syntactically valid line, formatting the    *)
(* command and the parameters of its parse and parsing the result gives    *)
(* the same command and the same list of parameters.                       *)
C11_RoundTrip ==
  op.name = "roundtrip" =>
    /\ op.arg[1].ok
    /\ op.arg[3].ok
    /\ op.arg[3].command = op.arg[1].command
    /\ op.arg[3].params = op.arg[1].params

----------------------------------------------------------------------------
(* What a read did to the session, for the claims on the dispatcher.       *)

\* the read handed exactly one message to processMessage, of this command
IsMessage(effs, command) ==
  LET d == OfKind(effs, "dispatch") IN
  /\ Len(d) = 1
  /\ ToUpperCase(d[1].args[1]) = command

\* the parameters of that message
ParamsOf(effs) == OfKind(effs, "dispatch")[1].args[2]

\* the nick that message is from
NickOf(turn) ==
  LET m == Parse(turn.arg[1]) IN ExtractNickFromPrefix(m.hasPrefix, m.prefix)

\* the names of the channels of the session
ChannelNames(chans) == {chans[i].key : i \in 1..Len(chans)}

\* the roster of channel c, empty if the session has no such channel
UsersOf(chans, c) == IF MapHas(chans, c) THEN MapGet(chans, c).users ELSE <<>>

\* the nicks of a roster
NicksOf(users) == {users[i].key : i \in 1..Len(users)}

\* nick n has the same entry, or none, in both rosters
SameEntry(before, after, n) ==
  /\ MapHas(before, n) <=> MapHas(after, n)
  /\ MapHas(before, n) => MapGet(before, n) = MapGet(after, n)

\* the rosters agree on every nick outside except
SameButFor(before, after, except) ==
  \A n \in (NicksOf(before) \cup NicksOf(after)) \ except :
    SameEntry(before, after, n)

\* the events of name ev the turn emitted, in order
EventsOf(effs, ev) == SelectSeq(effs, LAMBDA e : e.k = "emit" /\ e.name = ev)

\* the elements of a list
Range(list) == {list[i] : i \in 1..Len(list)}

----------------------------------------------------------------------------
(* C12: quit removes everywhere.  After a QUIT from nick N no roster has   *)
(* N, every other roster entry and the set of channels are as before, and  *)
(* exactly one quit event is emitted, whose list of affected channels has  *)
(* no repetition and is the set of channels whose roster had N.            *)
C12_QuitRemovesEverywhere ==
  [][IsMessage(effects', sQUIT) =>
       LET N == NickOf(op')
           had == {c \in ChannelNames(channels) : MapHas(UsersOf(channels, c), N)}
           ev == EventsOf(effects', "quit")
       IN /\ ChannelNames(channels') = ChannelNames(channels)
          /\ \A c \in ChannelNames(channels) :
               /\ ~MapHas(UsersOf(channels', c), N)
               /\ SameButFor(UsersOf(channels, c), UsersOf(channels', c), {N})
          /\ Len(OfKind(effects', "emit")) = 1
          /\ Len(ev) = 1
          /\ ev[1].args[1] = N
          /\ Range(ev[1].args[3]) = had
          /\ Len(ev[1].args[3]) = Cardinality(had)]_vars

C12_Witness ==
  /\ IsMessage(effects, sQUIT)
  /\ Len(EventsOf(effects, "quit")) = 1
  /\ Range(EventsOf(effects, "quit")[1].args[3]) = {sHashA, <<"#", "b">>}
  /\ \E c \in ChannelNames(channels) : Len(UsersOf(channels, c)) > 0

----------------------------------------------------------------------------
(* C13: idempotent NAMES.  When the same 353 reply is processed twice in   *)
(* a row, the roster after the second (what the second userlist event      *)
(* carries, and what the session then holds) is the roster after the       *)
(* first: the same nicks with the same modes.                              *)

\* the read held the same 353 line twice and nothing else
IsDoubledNames(turn) ==
  /\ turn.name = "sock_data"
  /\ LET lines == Split(turn.arg[1], LF) IN
     /\ Len(lines) = 3
     /\ lines[1] = lines[2]
     /\ Parse(lines[1]).ok
     /\ Parse(lines[1]).command = s353

C13_IdempotentNames ==
  IsDoubledNames(op) =>
    LET ev == EventsOf(effects, "userlist") IN
    /\ Len(ev) \in {0, 2}
    /\ Len(ev) = 2 =>
         /\ ev[1].args = ev[2].args
         /\ MapValues(UsersOf(channels, ev[2].args[1])) = ev[2].args[2]

C13_Witness ==
  /\ IsDoubledNames(op)
  /\ Len(EventsOf(effects, "userlist")) = 2
  /\ MapHas(UsersOf(channels, sHashA), sYu)
  /\ MapGet(UsersOf(channels, sHashA), sYu).modes = <<"op">>

----------------------------------------------------------------------------
(* C14: a 353 reply for channel C, known before or not, leaves C in the    *)
(* session with an entry for every listed name: modes op for a leading @,  *)
(* voice for a leading +, none otherwise, the marker stripped from the     *)
(* nick; and one userlist event for C is emitted.                          *)

\* the entry the claim gives a listed name
ListedUser(name) ==
  IF StartsWith(name, AT)
    THEN [nick |-> SubstringFrom(name, 1), modes |-> <<"op">>]
  ELSE IF StartsWith(name, PLUS)
    THEN [nick |-> SubstringFrom(name, 1), modes |-> <<"voice">>]
  ELSE [nick |-> name, modes |-> <<>>]

C14_NamesCreatesChannel ==
  [][(IsMessage(effects', s353) /\ Len(ParamsOf(effects')) >= 4) =>
       LET C == ParamsOf(effects')[3]
           names == {n \in Range(Split(ParamsOf(effects')[4], SP)) : Len(n) > 0}
           ev == EventsOf(effects', "userlist")
       IN /\ MapHas(channels', C)
          /\ \A n \in names :
               /\ MapHas(UsersOf(channels', C), ListedUser(n).nick)
               /\ MapGet(UsersOf(channels', C), ListedUser(n).nick) = ListedUser(n)
          /\ Len(ev) = 1
          /\ ev[1].args[1] = C]_vars

----------------------------------------------------------------------------
(* C15: a JOIN from nick N for channel C leaves C in the session with N in *)
(* its roster with no modes, whatever entry N had; every other channel,    *)
(* every other entry of C's roster and the local nick are as before; and   *)
(* exactly one join event, of N and C, is emitted.                         *)
C15_JoinAddsMember ==
  [][(IsMessage(effects', sJOIN) /\ Truthy(ParamsOf(effects'), 0)) =>
       LET N == NickOf(op')
           C == ParamsOf(effects')[1]
           ev == EventsOf(effects', "join")
       IN /\ ChannelNames(channels') = ChannelNames(channels) \cup {C}
          /\ MapHas(UsersOf(channels', C), N)
          /\ MapGet(UsersOf(channels', C), N) = [nick |-> N, modes |-> <<>>]
          /\ SameButFor(UsersOf(channels, C), UsersOf(channels', C), {N})
          /\ \A c \in ChannelNames(channels) \ {C} :
               MapGet(channels', c) = MapGet(channels, c)
          /\ currentNick' = currentNick
          /\ Len(OfKind(effects', "emit")) = 1
          /\ Len(ev) = 1
          /\ ev[1].args = <<N, C>>]_vars

C15_Witness ==
  /\ IsMessage(effects, sJOIN)
  /\ NickOf(op) = sYu
  /\ Len(EventsOf(effects, "join")) = 1
  /\ MapHas(UsersOf(channels, sHashA), <<"b", "o">>)
  /\ MapGet(UsersOf(channels, sHashA), <<"b", "o">>).modes = <<"voice">>
  /\ MapGet(UsersOf(channels, sHashA), sYu).modes = <<>>
  /\ MapKeys(UsersOf(channels, sHashA))[1] = sYu

----------------------------------------------------------------------------
(* C16: a PART from nick N for channel C, known before or not, leaves C's  *)
(* roster without N and every other roster as it was, and emits exactly    *)
(* one part event of N, C and the reason params[1].                        *)
C16_PartRemovesMember ==
  [][(IsMessage(effects', sPART) /\ Truthy(ParamsOf(effects'), 0)) =>
       LET N == NickOf(op')
           C == ParamsOf(effects')[1]
           ev == EventsOf(effects', "part")
       IN /\ ~MapHas(UsersOf(channels', C), N)
          /\ SameButFor(UsersOf(channels, C), UsersOf(channels', C), {N})
          /\ \A c \in ChannelNames(channels) \ {C} :
               UsersOf(channels', c) = UsersOf(channels, c)
          /\ Len(ev) = 1
          /\ ev[1].args = <<N, C, Opt(ParamsOf(effects'), 1)>>]_vars

----------------------------------------------------------------------------
(* C17: after a PART of the local nick for channel C, C is no longer a     *)
(* channel of the session.                                                 *)
C17_LocalPartRemovesChannel ==
  [][(/\ IsMessage(effects', sPART)
      /\ Truthy(ParamsOf(effects'), 0)
      /\ NickOf(op') = currentNick)
     => ParamsOf(effects')[1] \notin ChannelNames(channels')]_vars

----------------------------------------------------------------------------
(* C18: a message from a nick other than the local nick removes no         *)
(* channel: every channel of the session is still one after it, even with  *)
(* an empty roster.  (Stated as: a read after which a channel is gone held *)
(* a message from the local nick.)                                         *)
C18_OthersNeverRemoveChannel ==
  [][(/\ op'.name = "sock_data"
      /\ ~(ChannelNames(channels) \subseteq ChannelNames(channels')))
     => \E i \in 1..Len(effects') :
          /\ effects'[i].k = "raw"
          /\ LET m == Parse(effects'[i].args[1]) IN
             m.ok /\ ExtractNickFromPrefix(m.hasPrefix, m.prefix) = currentNick]_vars

C18_Witness ==
  /\ IsMessage(effects, sPART) \/ IsMessage(effects, sQUIT)
  /\ NickOf(op) = sYu
  /\ currentNick = sMe
  /\ Len(OfKind(effects, "emit")) = 1
  /\ MapHas(channels, sHashA)
  /\ Len(UsersOf(channels, sHashA)) = 0
  /\ MapGet(channels, sHashA).hasTopic

----------------------------------------------------------------------------
(* C19: a NICK from O to N (another nick) makes N the local nick if and    *)
(* only if O was; in every roster that had O, O is gone and N is there     *)
(* with the modes O had, the other entries as before; a roster without O   *)
(* is unchanged; no channel comes or goes; and exactly one nick event, of  *)
(* O and N, is emitted.                                                    *)
C19_NickRenames ==
  [][(/\ IsMessage(effects', sNICK)
      /\ Truthy(ParamsOf(effects'), 0)
      /\ ParamsOf(effects')[1] # NickOf(op'))
     => LET O == NickOf(op')
            N == ParamsOf(effects')[1]
            ev == EventsOf(effects', "nick")
        IN /\ currentNick' = (IF currentNick = O THEN N ELSE currentNick)
           /\ ChannelNames(channels') = ChannelNames(channels)
           /\ \A c \in ChannelNames(channels) :
                LET before == UsersOf(channels, c)
                    after == UsersOf(channels', c)
                IN IF MapHas(before, O)
                     THEN /\ ~MapHas(after, O)
                          /\ MapHas(after, N)
                          /\ MapGet(after, N) =
                               [nick |-> N, modes |-> MapGet(before, O).modes]
                          /\ SameButFor(before, after, {O, N})
                     ELSE after = before
           /\ Len(OfKind(effects', "emit")) = 1
           /\ Len(ev) = 1
           /\ ev[1].args = <<O, N>>]_vars

C19_Witness ==
  /\ IsMessage(effects, sNICK)
  /\ NickOf(op) = sYu
  /\ Len(EventsOf(effects, "nick")) = 1
  /\ MapHas(UsersOf(channels, sHashA), <<"b", "o">>)
  /\ MapGet(UsersOf(channels, sHashA), <<"b", "o">>).modes = <<"op">>
  /\ ~MapHas(UsersOf(channels, sHashA), sYu)

----------------------------------------------------------------------------
(* C20: a PRIVMSG emits exactly one message event, of the nick, the target *)
(* and the content params[1]; a target that is a channel name is a channel *)
(* of the session afterwards and every roster is as before; for any other  *)
(* target the channels, the rosters and the local nick are unchanged.      *)
C20_PrivmsgFrame ==
  [][IsMessage(effects', sPRIVMSG) =>
       LET params == ParamsOf(effects')
           ev == EventsOf(effects', "message")
       IN /\ Len(params) >= 2
          /\ Len(ev) = 1
          /\ ev[1].args = <<NickOf(op'), params[1], params[2]>>
          /\ currentNick' = currentNick
          /\ IF IsChannelName(params[1])
               THEN /\ ChannelNames(channels') =
                         ChannelNames(channels) \cup {params[1]}
                    /\ \A c \in ChannelNames(channels') :
                         UsersOf(channels', c) = UsersOf(channels, c)
               ELSE channels' = channels]_vars

----------------------------------------------------------------------------
(* C21: a malformed line (empty, or a prefix that no space follows) is     *)
(* skipped.  A read dispatches the well-formed lines it holds, in order,   *)
(* and no other; it leaves the connection state, the socket and the timers *)
(* as they were and emits neither error nor disconnected; and a read of    *)
(* malformed lines alone changes no field of the client and emits nothing. *)
C21_MalformedSkipped ==
  [][op'.name = "sock_data" =>
       LET lines == CompletedLines(<<>>, op'.arg[1]) IN
       /\ Dispatched(effects') = MessagesOf(lines, 1)
       /\ UNCHANGED <<connectionState, socket, socks, reconnectTimers,
                      pingTimers, pingInterval, reconnectAttempts>>
       /\ Emitted(effects', "error") = 0
       /\ Emitted(effects', "disconnected") = 0
       /\ (\A i \in 1..Len(lines) : ~Parse(lines[i]).ok) =>
            /\ UNCHANGED programVars
            /\ EmittedNothing(effects')]_vars

C21_Witness ==
  /\ op.name = "sock_data"
  /\ op.arg[1] = lineJoinYuA \o lineBad \o lineBlank \o lineNamesA
  /\ Len(OfKind(effects, "log")) = 1
  /\ Len(OfKind(effects, "dispatch")) = 2
  /\ Emitted(effects, "join") = 1
  /\ Emitted(effects, "userlist") = 1
  /\ connectionState = "connected"

----------------------------------------------------------------------------
(* C30: join, part, privmsg, nick and quit only write to the socket: they  *)
(* change neither the channels, the rosters nor the local nick and emit no *)
(* event; and a turn emits no more message events than it was handed       *)
(* PRIVMSG messages received from the server.                              *)
C30_OutboundOnlyWrites ==
  [][/\ op'.name \in OutboundTurns =>
          /\ UNCHANGED <<channels, currentNick>>
          /\ EmittedNothing(effects')
          /\ \A i \in 1..Len(effects') : effects'[i].k \in {"write", "throw"}
     /\ Emitted(effects', "message") <=
          Len(SelectSeq(OfKind(effects', "dispatch"),
                        LAMBDA d : ToUpperCase(d.args[1]) = sPRIVMSG))]_vars

C30_Witness ==
  /\ op.name = "privmsg"
  /\ op.pre = "connected"
  /\ Len(OfKind(effects, "write")) = 1
  /\ Len(effects) = 1
  /\ MapHas(channels, sHashA)
  /\ Len(UsersOf(channels, sHashA)) > 0

----------------------------------------------------------------------------
(* C22: a failure schedules at most one automatic attempt; the attempt     *)
(* scheduled emits reconnecting with the number k that is one more than    *)
(* the count before it, k in 1..maxReconnectAttempts, and arms its timer   *)
(* with the delay reconnectDelay * k; and a successful connection puts the *)
(* count back to zero.                                                     *)
C22_AttemptNumbersAndDelays ==
  [][/\ Len(EventsOf(effects', "reconnecting")) <= 1
     /\ \A i \in 1..Len(effects') :
          (effects'[i].k = "emit" /\ effects'[i].name = "reconnecting") =>
            LET k == effects'[i].args[1] IN
            /\ k \in 1..maxReconnectAttempts
            /\ k = reconnectAttempts + 1
            /\ reconnectAttempts' = k
            /\ i + 1 <= Len(effects')
            /\ effects'[i + 1].k = "timeout"
            /\ effects'[i + 1].n = reconnectDelay * k
     /\ Emitted(effects', "connected") > 0 => reconnectAttempts' = 0]_vars

----------------------------------------------------------------------------
(* C26: quit(reason) in state connected writes exactly the line            *)
(* QUIT :<reason> and CRLF, which parses to the command QUIT with the one  *)
(* parameter reason; quit() without a reason writes QUIT and CRLF.         *)
C26_QuitLine ==
  (op.name = "quit" /\ op.pre = "connected") =>
    LET reason == op.arg[1]
        writes == OfKind(effects, "write")
    IN /\ Len(writes) = 1
       /\ writes[1].args[1] =
            (IF Len(reason) > 0 THEN sQUIT \o <<SP, COLON>> \o reason \o CRLF
             ELSE sQUIT \o CRLF)
       /\ Len(reason) > 0 =>
            LET m == Parse(writes[1].args[1]) IN
            m.ok /\ m.command = sQUIT /\ m.params = <<reason>>

----------------------------------------------------------------------------
(* C28: a read on a socket with listeners hands every complete line it     *)
(* holds to the dispatcher exactly once and in the order received, on the  *)
(* first connection and on every later one.                                *)
C28_DispatchedOnceInOrder ==
  (op.name = "sock_data" /\ op.pre = "connected") =>
    Dispatched(effects) = MessagesOf(CompletedLines(<<>>, op.arg[1]), 1)

----------------------------------------------------------------------------
(* C24: once reconnect_failed has been emitted (and while the user has not *)
(* called connect again) the connection state is disconnected and no       *)
(* reconnect timer is pending.                                             *)
C24_DisconnectedAfterReconnectFailed ==
  nReconnectFailed >= 1 =>
    /\ connectionState = "disconnected"
    /\ reconnectTimers.live = 0

----------------------------------------------------------------------------
(* C23: an automatic reconnect attempt (a reconnect timer that opens a     *)
(* socket) starts in state reconnecting and connects to the host and port  *)
(* and with the nick that were given to the explicit connect call, also    *)
(* after NICK messages were processed during the session.                  *)
C23_ReconnectUsesOriginalArguments ==
  [][(op'.name = "reconnect_timer" /\ Len(socks') = Len(socks) + 1) =>
       LET opened == OfKind(effects', "socket") IN
       /\ op'.pre = "reconnecting"
       /\ Len(opened) = 1
       /\ <<opened[1].args[1], opened[1].n, socks'[Len(socks')].nick>>
            \in ValidConnectArgs]_vars

----------------------------------------------------------------------------
(* C29: when a new connection is established (a sock_connect turn that     *)
(* emits connected on a socket other than the first) the session state     *)
(* holds no channel of the connection before.                              *)
C29_SessionStateOfOneConnection ==
  (op.name = "sock_connect" /\ op.sock > 1 /\ Emitted(effects, "connected") > 0) =>
    channels = <<>>

----------------------------------------------------------------------------
(* C25: a keepalive tick in state connected writes exactly the line        *)
(* PING :<host> and CRLF and records the time when more than the threshold *)
(* has passed since lastPingTime (the last PONG received or keepalive PING *)
(* sent); otherwise it writes nothing and records nothing.                 *)
C25_KeepalivePing ==
  [][(op'.name = "ping_tick" /\ op'.pre = "connected") =>
       LET writes == OfKind(effects', "write") IN
       IF now - lastPingTime > KeepaliveThreshold
         THEN /\ Len(writes) = 1
              /\ writes[1].args[1] = sPING \o <<SP, COLON>> \o server \o CRLF
              /\ lastPingTime' = now
         ELSE /\ Len(writes) = 0
              /\ lastPingTime' = lastPingTime]_vars

----------------------------------------------------------------------------
(* C27: when the socket of an explicit connect call fails or times out     *)
(* while the call awaits it, nothing is thrown to the caller, the state is *)
(* set to error, exactly one error event is emitted, and reconnect attempt *)
(* 1 is scheduled after reconnectDelay.                                    *)
C27_ConnectFailureSchedulesAttemptOne ==
  [][(op'.name \in {"sock_error", "sock_timeout"} /\ op'.arg[1] = "pending") =>
       LET states == OfKind(effects', "state")
           attempts == EventsOf(effects', "reconnecting")
           timers == OfKind(effects', "timeout")
       IN /\ \A k \in {"throw", "uncaught", "unhandled_rejection"} :
               Len(OfKind(effects', k)) = 0
          /\ \E i \in 1..Len(states) : states[i].name = "error"
          /\ Len(EventsOf(effects', "error")) = 1
          /\ Len(attempts) = 1 /\ attempts[1].args = <<1>>
          /\ Len(timers) = 1 /\ timers[1].n = reconnectDelay]_vars

----------------------------------------------------------------------------
(* C31: join(name) in state connected writes exactly one line: JOIN, a     *)
(* space, the name with '#' put before it unless it starts with '#', and   *)
(* CRLF.                                                                   *)
C31_JoinLine ==
  (op.name = "join" /\ op.pre = "connected") =>
    LET name == op.arg[1]
        full == IF StartsWith(name, HASH) THEN name ELSE <<HASH>> \o name
    IN OfKind(effects, "write") =
         <<Eff("write", op.sock, OfKind(effects, "write")[1].name,
               <<sJOIN \o <<SP>> \o full \o CRLF>>, 0)>>

\* C31 as the code has it: the name is the last parameter of the line, so
\* format puts a ':' before it when it holds a space or a colon
C31_JoinLineAsFormatted ==
  (op.name = "join" /\ op.pre = "connected") =>
    LET name == op.arg[1]
        full == IF StartsWith(name, HASH) THEN name ELSE <<HASH>> \o name
        lead == IF Includes(full, SP) \/ Includes(full, COLON)
                  THEN <<SP, COLON>> ELSE <<SP>>
        writes == OfKind(effects, "write")
    IN /\ Len(writes) = 1
       /\ writes[1].sock = op.sock
       /\ writes[1].args = <<sJOIN \o lead \o full \o CRLF>>
       /\ Len(effects) = 1

\* C31 witness: a name with a colon and without '#' was joined and a line written
C31_Witness ==
  /\ op.name = "join" /\ op.pre = "connected"
  /\ op.arg[1] = <<"a", COLON, "b">>
  /\ Len(OfKind(effects, "write")) = 1

----------------------------------------------------------------------------
(* C32: parse of the line [:prefix ]COMMAND p1 ... pn[ :trailing] gives    *)
(* that prefix (none when the line has none), that command, and the        *)
(* parameters p1 .. pn followed by the trailing parameter, verbatim        *)
(* without its colon.                                                      *)
C32_ParseForm ==
  op.name = "parse" =>
    LET prefix == op.arg[1]
        command == op.arg[2]
        middles == op.arg[3]
        trailing == op.arg[4]
        m == op.arg[5]
    IN /\ m.ok
       /\ m.hasPrefix = prefix[1]
       /\ prefix[1] => m.prefix = prefix[2]
       /\ m.command = command
       /\ m.params = middles \o (IF trailing[1] THEN <<trailing[2]>> ELSE <<>>)

----------------------------------------------------------------------------
(* C33: format(command, params) is the command followed by the non-empty   *)
(* parameters, each after one space, with ':' before the last non-empty    *)
(* parameter exactly when that one contains a space or a colon.            *)

\* the index of the last non-empty parameter, 0 when there is none
LastNonEmpty(params) ==
  LET filled == {i \in 1..Len(params) : Len(params[i]) > 0}
  IN IF filled = {} THEN 0 ELSE CHOOSE i \in filled : \A j \in filled : j <= i

C33_FormatLine ==
  op.name = "format" =>
    LET command == op.arg[1]
        params == op.arg[2]
        last == LastNonEmpty(params)
        piece(i) ==
          IF Len(params[i]) = 0 THEN <<>>
          ELSE IF i = last /\ (Includes(params[i], SP) \/ Includes(params[i], COLON))
            THEN <<SP, COLON>> \o params[i]
            ELSE <<SP>> \o params[i]
    IN op.arg[3] = command \o JoinWith([i \in 1..Len(params) |-> piece(i)], <<>>)

----------------------------------------------------------------------------
(* C34: in every reachable state exactly one keepalive timer is armed when *)
(* the connection state is connected, and none is armed otherwise.         *)
C34_OneKeepaliveTimerIffConnected ==
  pingTimers = (IF connectionState = "connected" THEN 1 ELSE 0)

----------------------------------------------------------------------------
(* C35: at most one socket is open at any time: of the sockets created so  *)
(* far at most one is neither closed nor ended by disconnect().            *)
C35_AtMostOneSocketOpen ==
  Cardinality({s \in Sockets : socks[s].tcp # "closed" /\ ~socks[s].ended}) <= 1

----------------------------------------------------------------------------
(* C36: when every pending timer fires and every attempt is settled, the   *)
(* client does not stay in connecting or reconnecting forever: from either *)
(* state it reaches connected or emits reconnect_failed.                   *)
C36_ConnectSettles ==
  (connectionState \in {"connecting", "reconnecting"})
    ~> (connectionState = "connected" \/ nReconnectFailed >= 1)

\* C36 witness: all attempts were used up and reconnect_failed was emitted
C36_Witness ==
  /\ nReconnectFailed = 1
  /\ reconnectAttempts = maxReconnectAttempts
  /\ Len(socks) = maxReconnectAttempts + 1
  /\ connectionState \notin {"connecting", "reconnecting", "connected"}

----------------------------------------------------------------------------
(* C37: after disconnect() and a new connect(), a close, error or data     *)
(* event of the old socket (the one disconnect() ended, no longer          *)
(* this.socket) leaves the connection state, the keepalive timers, the     *)
(* reconnect counter and the reconnect timers as they were.                *)
C37_SupersededSocketIgnored ==
  [][(/\ op'.name \in {"sock_close", "sock_error", "sock_data"}
      /\ socket # 0
      /\ op'.sock # socket
      /\ socks[op'.sock].ended
      /\ socks[op'.sock].tcp = "open") =>
       /\ connectionState' = connectionState
       /\ pingTimers' = pingTimers
       /\ pingInterval' = pingInterval
       /\ reconnectAttempts' = reconnectAttempts
       /\ reconnectTimers' = reconnectTimers]_vars

----------------------------------------------------------------------------
(* C38: an explicit connect made after reconnect_failed has a fresh retry  *)
(* budget: when its attempt fails or times out, reconnect_failed is not    *)
(* emitted but automatic attempt 1 is scheduled after reconnectDelay.      *)
C38_FreshBudgetAfterReconnectFailed ==
  [][(/\ nReconnectFailed >= 1
      /\ reconnectTimers.live = 0
      /\ op'.name \in {"sock_error", "sock_timeout"}
      /\ op'.arg[1] = "pending") =>
       LET attempts == EventsOf(effects', "reconnecting")
           timers == OfKind(effects', "timeout")
       IN /\ Emitted(effects', "reconnect_failed") = 0
          /\ Len(attempts) = 1 /\ attempts[1].args = <<1>>
          /\ Len(timers) = 1 /\ timers[1].n = reconnectDelay]_vars

----------------------------------------------------------------------------
(* C40: in every reachable session state each roster entry is stored under *)
(* its own nick: for every channel and every key k of its roster, the user *)
(* stored under k has the nick k.                                          *)
C40_RosterKeyedByNick ==
  \A i \in 1..Len(channels) :
    \A j \in 1..Len(channels[i].val.users) :
      channels[i].val.users[j].val.nick = channels[i].val.users[j].key

\* C40 witness: a nick change renamed an entry of a roster that holds other
\* entries too, in a session of more than one channel
C40_Witness ==
  /\ IsMessage(effects, sNICK)
  /\ Len(channels) >= 2
  /\ \E i \in 1..Len(channels) :
       /\ Len(channels[i].val.users) >= 2
       /\ MapHas(channels[i].val.users, <<"b", "o">>)
       /\ MapGet(channels[i].val.users, <<"b", "o">>).nick = <<"b", "o">>
       /\ ParamsOf(effects) = <<<<"b", "o">>>>

----------------------------------------------------------------------------
(* C39: for every channel of the hook's channel list that the client's     *)
(* session state has too, the hook's roster (nicks and modes) is the       *)
(* roster the session state has for it.                                    *)
C39_HookRosterIsSessionRoster ==
  hook.mounted =>
    \A i \in 1..Len(hook.channels) :
      MapHas(channels, hook.channels[i].name) =>
        Range(hook.channels[i].users)
          = Range(MapGet(channels, hook.channels[i].name).users)

====
